---- MODULE Spec2Model ----
(***************************************************************************)
(* State-machine model of SegmentViewer (src/GUI.py): the streaming ring   *)
(* buffer, the stateful bandpass+notch pipeline, the warmup discard, the   *)
(* spectral throttle and the handlers that start, stop and reconfigure a   *)
(* live session or a file session.                                         *)
(*                                                                         *)
(* Conventions                                                             *)
(*  - channel indices are 0-based as in the source; a numpy matrix is a    *)
(*    function from row index to a sequence of cells; a dict is a function *)
(*    whose DOMAIN is its key set; None for a matrix is the empty function *)
(*  - window_size_sec is held in tenths of a second (the spinbox has one   *)
(*    decimal, the slider value is tenths)                                 *)
(*  - a handler that raises stops at the raise: what it assigned before    *)
(*    stays assigned                                                       *)
(*  - rendering (plot items, labels, colours, themes) is not modelled      *)
(***************************************************************************)
EXTENDS Integers, Sequences, FiniteSets, TLC

\* ---------------------------------------------------------------- constants
DefaultWindowTenths == 100
DefaultSamplingRate == 125
lowcut == 5
SmoothMs == 120
DefaultZoom == 100
\* band_power_smoothing_alpha = 0.2, in tenths; the factor 0.995 of the axis
\* ceiling, in thousandths
BandAlphaTenths == 2
DecayPerMille == 995
highcut == 35
notch_freq == 60
fft_update_interval == 3
AutoplayFftInterval == 5
MinBufSize == 10
NaN == -2000000000
Unset == -1

\* ------------------------------------------------------------------- bounds
\* rows delivered by the connected board (len(eeg_channels))
BoardChannels == 2
\* number of non-empty chunks pulled from the board in one run
MaxTicks == 2
\* number of chunks on which a filter stage is made to raise in one run
MaxFaults == 1
\* largest window index the navigation slider is moved to
MaxWindowIndex == 3

\* sampling rates reported by the board (both board ids the source uses)
BoardRates == {250}
\* sizes of the chunk returned by board.get_board_data() on a tick
ChunkSizes == {0, 4, 130}
\* samples dropped by the drain at session start (board.get_board_data())
DrainSizes == {0}
\* recordings offered to load_file: rows, columns, sfreq (0: no sfreq key)
FileChoices == { [rows |-> 2, cols |-> 20000, sfreq |-> 20] }
\* a recording with one channel more than the board
ChannelFiles == { [rows |-> BoardChannels + 1, cols |-> 50, sfreq |-> 20] }
\* values typed into the sampling-rate spinbox
RateChoices == {20}
\* values typed into the window-length spinbox (tenths of a second)
WindowChoices == {1}
\* positions the window-length slider is dragged to (tenths, minimum 10)
SliderChoices == {10}
\* entries picked in the magnitude combo box
MagnitudeChoices == {50}
\* chunk sizes of the sessions that resize the buffer: 25 samples are the
\* capacity of a 0.1 s window at 250 Hz
SessionChunks == {3, 25, 130}
\* recordings, window lengths (tenths of a second), sampling rates and view
\* centres (tenths of a second) of the file-mode runs that segment short
\* recordings.  For these
\* lengths and rates the floating-point product window_size_sec *
\* sampling_rate is the exact one.
WindowFiles == { [rows |-> 2, cols |-> 204, sfreq |-> 20],
                 [rows |-> 2, cols |-> 50, sfreq |-> 20],
                 [rows |-> 1, cols |-> 0, sfreq |-> 12] }
WindowLengths == {1, 10}
WindowRates == {12, 20}
ViewCentres == {-5, 0, 12, 300}
\* a ten-second recording of two channels at 100 Hz, and the window lengths
\* and sampling rates it is viewed under
RecordingFiles == { [rows |-> 2, cols |-> 1000, sfreq |-> 100] }
RecordingLengths == {50, 100}
RecordingRates == {50, 100}
\* rates BoardShim.get_sampling_rate may report: at 250 Hz both filters can
\* be derived, at 100 Hz the notch at 60 Hz is above Nyquist, at 60 Hz the
\* upper band edge of 35 Hz is too
CoeffRates == {60, 100, 250}
\* chunk sizes of the ticks that follow
CoeffChunks == {0, 4, 70}
\* positions of the vertical zoom slider, in percent
ZoomChoices == {50, 100}
\* recordings whose bounds are computed: in the first, channel 0 is flat; in
\* the second, both channels vary and channel 1 has the larger range; the
\* third is empty
BoundsFiles == { [rows |-> 2, cols |-> 204, sfreq |-> 20],
                 [rows |-> 2, cols |-> 50, sfreq |-> 20],
                 [rows |-> 1, cols |-> 0, sfreq |-> 12] }

\* ------------------------------------------------------------------ helpers
Min(a, b) == IF a < b THEN a ELSE b
Max(a, b) == IF a > b THEN a ELSE b

Range(n) == 0 .. (n - 1)

\* x[-k:] for a 1-D array (k >= 0; -0 is 0, so x[-0:] is all of x)
PyTail(x, k) ==
    IF k = 0 THEN x ELSE SubSeq(x, Max(Len(x) - k, 0) + 1, Len(x))

\* x[k:] for k >= 0
PyFrom(x, k) == SubSeq(x, Min(k, Len(x)) + 1, Len(x))

\* a one-dimensional array given cell by cell, held as a tuple
Array(f) == f \o << >>

Fill(n, v) == [j \in 1 .. n |-> v]

EmptyDict == << >>
NoBuffer == << >>

Rows(m) == Cardinality(DOMAIN m)
Cols(m) == Len(m[0])

\* np.full((rows, cols), v)
Full(rows, cols, v) == [r \in Range(rows) |-> Fill(cols, v)]

\* ------------------------------------------------- external: board and scipy
\* The board is a source of samples; sample k of row ch (k counted from the
\* start of board.start_stream()).  Values are multiples of 100 so that the
\* display gain magnitude_scale / 100.0 is exact on integers.
RawSample(ch, k) == 100 * ((((k * k) + (ch + 1) * k) % 7) + 1)

\* data[self.eeg_channels, :] of a pull of n samples starting after position p
RawChunk(rows, p, n) ==
    [ch \in Range(rows) |-> Array([j \in 1 .. n |-> RawSample(ch, p + j)])]

\* scipy.signal.butter(2, [lowcut, highcut], btype='band', fs=fs) raises
\* ValueError unless 0 < Wn < fs/2; iirnotch raises unless 0 < w0 < 1
ButterRaises(fs) == ~ (0 < lowcut /\ lowcut < highcut /\ 2 * highcut < fs)
NotchRaises(fs) == ~ (0 < notch_freq /\ 2 * notch_freq < fs)

\* Integer stand-ins for the numerator vectors (the denominators are
\* <<1, 0, 0>>): a band-pass has zero gain at DC, a notch has unit gain at DC;
\* both depend on fs.
butter(fs) == <<fs \div 125, 0, 0 - (fs \div 125)>>
iirnotch(fs) == <<1, 0 - (fs \div 250), fs \div 250>>

\* scipy.signal.lfilter_zi: the state of the transposed direct form II
\* filter in the steady state of a unit step input
lfilter_zi(b) ==
    LET n == Len(b) - 1
        RECURSIVE Z(_)
        Z(i) == IF i > n THEN 0 ELSE b[i + 1] + Z(i + 1)
    IN [i \in 1 .. n |-> Z(i)]

\* scipy.signal.lfilter(b, a, x, zi=zi) in transposed direct form II with
\* two delays: y[k] = b[1] x[k] + z1[k-1], z1[k] = b[2] x[k] + z2[k-1],
\* z2[k] = b[3] x[k]; returns the output and the final state
lfilter(b, x, zi) ==
    LET Z2(k) == IF k = 0 THEN zi[2] ELSE b[3] * x[k]
        Z1(k) == IF k = 0 THEN zi[1] ELSE b[2] * x[k] + Z2(k - 1)
    IN [y |-> Array([k \in 1 .. Len(x) |-> b[1] * x[k] + Z1(k - 1)]),
        zf |-> <<Z1(Len(x)), Z2(Len(x))>>]

ScaleVec(v, k) == [j \in 1 .. Len(v) |-> v[j] * k]

\* number of rfft bins at or below 50 Hz for n samples at rate fs
\* (np.fft.rfftfreq(n, 1/fs) <= 50)
FFTBins(n, fs) == Min(n \div 2, (50 * n) \div fs) + 1

Bands == {"Delta", "Theta", "Alpha", "Mu", "Beta", "Gamma"}

\* -------------------------------------------------------------------- state
VARIABLES
    \* mode flag, session flags and the two timers
    mode, file_loaded, streaming_active, stream_timer, autoplay_timer, autoplay_active,
    \* hardware source: connected flag, samples consumed so far, row count
    board, board_pos, eeg_channels,
    \* outward publisher: whether the outlet exists, the slot its button is
    \* connected to ("start" / "stop"), and what the last tick pushed to it
    \* beside what process_signal returned on that tick
    eeg_outlet, start_eeg_stream_btn, h_pushed,
    \* configuration
    num_channels, sampling_rate, window_size_sec, magnitude_scale, magnitude_combo,
    \* the last call of check_for_updates: its inputs and what it returned
    update_check,
    \* recording seen by the file path: [kind, rows, cols]
    raw_data, full_time_axis,
    \* vertical bounds per channel (channel -> <<low, high>>, in quarters of a
    \* microvolt) and the mode that selects between them
    channel_iqr_bounds, channel_minmax_bounds, vertical_bounds_mode,
    \* window segmentation
    window_size_samples, stride, num_windows, current_window, last_horizontal_zoom_value,
    \* ring buffer and warmup counter
    stream_buffer, stream_time_axis, stream_warmup_remaining,
    \* filter pipeline
    filter_coeffs_valid, bandpass_fs, notch_fs, zi_template_fs, bandpass_zi, notch_zi,
    \* spectral throttle and EMA caches (smoothed_fft: channel -> vector length)
    fft_update_counter, smoothed_fft, smoothed_band_power,
    \* the values of smoothed_band_power (band -> fixed point) and the
    \* ceiling of the band-power axis; h_ceiling_before: the ceiling the last
    \* band-power update started from (Unset: none since the last reset)
    smoothed_band_value, band_power_y_max, h_ceiling_before,
    \* channel selection (channel_checkboxes: index -> checked)
    active_channels, select_all_checkbox, channel_checkboxes,
    \* widget enablement that gates the handlers
    mode_radio_enabled, sampling_rate_spinbox_enabled, window_controls_enabled,
    channel_group_enabled, nav_widget_enabled,
    \* history of the run, read only by the properties (h_resized: "resized"
    \* after a resize of the session's buffer, "refilled" after the next
    \* append if its chunk had as many columns as the buffer, else "no")
    h_ticks, h_faults, h_appends, h_session_fs, h_filtered, h_admitted,
    h_last_n, h_last_kept, h_last_fail, h_spectral, h_resized,
    \* h_bounds_passes: how often the last prepare_data ran its bounds loop;
    \* h_fit_bounds: what get_bounds_for_channels returned to the last
    \* auto_fit_plot
    h_bounds_passes, h_fit_bounds,
    \* vertical zoom (percent) and the amplitude scale of the stacked lanes
    \* (percent); h_plotted: channel -> the buffer row and its smoothed
    \* version drawn by the last redraw that apply_vertical_zoom ran
    vertical_zoom_slider, channel_amplitude_scale, h_plotted

flagVars == <<mode, file_loaded, streaming_active, stream_timer, autoplay_timer, autoplay_active>>
outletVars == <<eeg_outlet, start_eeg_stream_btn, h_pushed>>
boardVars == <<board, board_pos, eeg_channels, outletVars>>
updateVars == <<update_check>>
configVars == <<num_channels, sampling_rate, window_size_sec, magnitude_scale, magnitude_combo,
                updateVars>>
boundsVars == <<channel_iqr_bounds, channel_minmax_bounds, vertical_bounds_mode,
                h_bounds_passes, h_fit_bounds>>
zoomVars == <<vertical_zoom_slider, channel_amplitude_scale, h_plotted>>
fileVars == <<raw_data, full_time_axis, boundsVars, zoomVars>>
windowVars == <<window_size_samples, stride, num_windows, current_window, last_horizontal_zoom_value>>
bufferVars == <<stream_buffer, stream_time_axis, stream_warmup_remaining>>
filterVars == <<filter_coeffs_valid, bandpass_fs, notch_fs, zi_template_fs, bandpass_zi, notch_zi>>
bandVars == <<smoothed_band_value, band_power_y_max, h_ceiling_before>>
spectralVars == <<fft_update_counter, smoothed_fft, smoothed_band_power, bandVars>>
channelVars == <<active_channels, select_all_checkbox, channel_checkboxes>>
widgetVars == <<mode_radio_enabled, sampling_rate_spinbox_enabled, window_controls_enabled,
                channel_group_enabled, nav_widget_enabled>>
tickHist == <<h_ticks, h_faults, h_appends, h_filtered, h_admitted,
              h_last_n, h_last_kept, h_last_fail, h_spectral>>
histVars == <<tickHist, h_session_fs, h_resized>>

vars == <<flagVars, boardVars, configVars, fileVars, windowVars, bufferVars, filterVars,
          spectralVars, channelVars, widgetVars, histVars>>

NoData == [kind |-> "none", rows |-> 0, cols |-> 0]
NotCalled == [ret |-> "not called", lo |-> 0, hi |-> 0]
NotChecked == [called |-> FALSE, current |-> << >>, system |-> "Linux",
               resp |-> [kind |-> "error"], result |-> [pair |-> FALSE, tag |-> << >>, url |-> ""]]
NoPush == [pushed |-> FALSE, returned |-> FALSE, chunk |-> << >>, processed |-> << >>]
\* what an outlet sees of a tick that returned early
NothingPushed == IF eeg_outlet THEN [NoPush EXCEPT !.returned = TRUE] ELSE NoPush
NoFail == [ch \in Range(BoardChannels) |-> "none"]
EmptyRows == [ch \in Range(BoardChannels) |-> << >>]

\* SegmentViewer.__init__ with the default arguments used by main()
Init ==
    /\ mode = "file" /\ file_loaded = FALSE /\ streaming_active = FALSE
    /\ stream_timer = FALSE /\ autoplay_timer = FALSE /\ autoplay_active = FALSE
    /\ board = FALSE /\ board_pos = 0 /\ eeg_channels = 0
    /\ eeg_outlet = FALSE /\ start_eeg_stream_btn = "start" /\ h_pushed = NoPush
    /\ num_channels = 0 /\ sampling_rate = DefaultSamplingRate
    /\ window_size_sec = DefaultWindowTenths
    /\ magnitude_scale = 100 /\ magnitude_combo = 200
    /\ update_check = NotChecked
    /\ raw_data = NoData /\ full_time_axis = Unset
    /\ channel_iqr_bounds = EmptyDict /\ channel_minmax_bounds = EmptyDict
    /\ vertical_bounds_mode = "iqr" /\ h_bounds_passes = 0 /\ h_fit_bounds = NotCalled
    /\ vertical_zoom_slider = DefaultZoom /\ channel_amplitude_scale = DefaultZoom
    /\ h_plotted = EmptyDict
    /\ window_size_samples = Unset /\ stride = Unset /\ num_windows = 0
    /\ current_window = 0 /\ last_horizontal_zoom_value = Unset
    /\ stream_buffer = NoBuffer /\ stream_time_axis = Unset
    /\ stream_warmup_remaining = Unset
    /\ filter_coeffs_valid = FALSE /\ bandpass_fs = Unset /\ notch_fs = Unset
    /\ zi_template_fs = Unset /\ bandpass_zi = EmptyDict /\ notch_zi = EmptyDict
    /\ fft_update_counter = 0 /\ smoothed_fft = EmptyDict /\ smoothed_band_power = {}
    /\ smoothed_band_value = EmptyDict /\ band_power_y_max = 0 /\ h_ceiling_before = Unset
    /\ active_channels = {} /\ select_all_checkbox = "unchecked" /\ channel_checkboxes = << >>
    /\ mode_radio_enabled = TRUE /\ sampling_rate_spinbox_enabled = FALSE
    /\ window_controls_enabled = FALSE /\ channel_group_enabled = FALSE
    /\ nav_widget_enabled = FALSE
    /\ h_ticks = 0 /\ h_faults = 0 /\ h_appends = 0
    /\ h_session_fs = Unset /\ h_filtered = EmptyRows /\ h_admitted = EmptyRows
    /\ h_last_n = 0 /\ h_last_kept = 0 /\ h_last_fail = NoFail /\ h_spectral = << >>
    /\ h_resized = "no"

\* ------------------------------------------------------ filter pipeline
\* a failed derivation that leaves filter_coeffs_valid as it was
CalculateFilterCoefficientsKeepFlag(fs) ==
    IF ButterRaises(fs)
    THEN [valid |-> filter_coeffs_valid, bfs |-> bandpass_fs, nfs |-> notch_fs,
          tfs |-> zi_template_fs, bz |-> bandpass_zi, nz |-> notch_zi]
    ELSE IF NotchRaises(fs)
    THEN [valid |-> filter_coeffs_valid, bfs |-> fs, nfs |-> notch_fs,
          tfs |-> zi_template_fs, bz |-> bandpass_zi, nz |-> notch_zi]
    ELSE [valid |-> TRUE, bfs |-> fs, nfs |-> fs, tfs |-> fs,
          bz |-> EmptyDict, nz |-> EmptyDict]

\* calculate_filter_coefficients for sampling rate fs: the new values of
\* filter_coeffs_valid, the rates the coefficient vectors and the zi
\* templates were derived for, and the two state dicts
calculate_filter_coefficients(fs) ==
    IF ButterRaises(fs)
    THEN [valid |-> FALSE, bfs |-> bandpass_fs, nfs |-> notch_fs, tfs |-> zi_template_fs,
          bz |-> bandpass_zi, nz |-> notch_zi]
    ELSE IF NotchRaises(fs)
    THEN [valid |-> FALSE, bfs |-> fs, nfs |-> notch_fs, tfs |-> zi_template_fs,
          bz |-> bandpass_zi, nz |-> notch_zi]
    ELSE [valid |-> TRUE, bfs |-> fs, nfs |-> fs, tfs |-> fs,
          bz |-> EmptyDict, nz |-> EmptyDict]

\* channel_data * (self.magnitude_scale / 100.0)
MagnitudeScaling(x) == Array([j \in 1 .. Len(x) |-> (x[j] * magnitude_scale) \div 100])

\* a stage that starts every chunk from a fresh seed
SeedAlways(zi, i, template, x) == ScaleVec(template, x[1])

\* the state a stage starts a chunk from: the persisted one, or the template
\* scaled by the chunk's first sample
SeedOrState(zi, i, template, x) ==
    IF i \in DOMAIN zi THEN zi[i] ELSE ScaleVec(template, x[1])

\* one iteration of the channel loop of process_signal; f names the stage
\* whose lfilter call raises on this chunk ("none", "bandpass", "notch")
ProcessChannel(i, x, f) ==
    IF ~ filter_coeffs_valid
    THEN [out |-> MagnitudeScaling(x), touched |-> FALSE, bz |-> << >>, nz |-> << >>]
    ELSE LET bz0 == SeedOrState(bandpass_zi, i, lfilter_zi(butter(zi_template_fs)), x)
             nz0 == SeedOrState(notch_zi, i, lfilter_zi(iirnotch(zi_template_fs)), x)
             bp == lfilter(butter(bandpass_fs), x, bz0)
             nt == lfilter(iirnotch(notch_fs), bp.y, nz0)
         IN CASE f = "bandpass" ->
                   [out |-> MagnitudeScaling(x), touched |-> TRUE, bz |-> bz0, nz |-> nz0]
              [] f = "notch" ->
                   [out |-> MagnitudeScaling(bp.y), touched |-> TRUE, bz |-> bp.zf, nz |-> nz0]
              [] OTHER ->
                   [out |-> MagnitudeScaling(nt.y), touched |-> TRUE, bz |-> bp.zf, nz |-> nt.zf]

\* process_signal that filters each chunk without keeping the states it ends in
process_signal_forgetting(data, fail) ==
    LET R == DOMAIN data
        pc == Array([k \in 1 .. Cardinality(R) |->
                       ProcessChannel(k - 1, data[k - 1], fail[k - 1])])
    IN [out |-> [i \in R |-> pc[i + 1].out], bz |-> bandpass_zi, nz |-> notch_zi]

\* process_signal(data): the processed matrix and the two state dicts after
process_signal(data, fail) ==
    LET R == DOMAIN data
        pc == Array([k \in 1 .. Cardinality(R) |->
                       ProcessChannel(k - 1, data[k - 1], fail[k - 1])])
        T == {i \in R : pc[i + 1].touched}
    IN [out |-> [i \in R |-> pc[i + 1].out],
        bz |-> [i \in (DOMAIN bandpass_zi) \cup T |->
                  IF i \in T THEN pc[i + 1].bz ELSE bandpass_zi[i]],
        nz |-> [i \in (DOMAIN notch_zi) \cup T |->
                  IF i \in T THEN pc[i + 1].nz ELSE notch_zi[i]]]

\* ------------------------------------------------------------ ring buffer
\* a rolling branch that writes the chunk over the newest cells without
\* shifting the older ones left
RingAppendNoShift(buf, chunk) ==
    LET n == Cols(chunk)
        c == Cols(buf)
    IN IF n >= c
       THEN [r \in DOMAIN chunk |-> PyTail(chunk[r], c)]
       ELSE [r \in DOMAIN buf |-> SubSeq(buf[r], 1, c - n) \o chunk[r]]

\* a replace branch that keeps one column fewer than the buffer holds
RingAppendShort(buf, chunk) ==
    LET n == Cols(chunk)
        c == Cols(buf)
    IN IF n >= c
       THEN [r \in DOMAIN chunk |-> PyTail(chunk[r], c - 1)]
       ELSE [r \in DOMAIN buf |-> PyFrom(buf[r], n) \o chunk[r]]

\* the rolling-buffer branch of update_stream_data for new_samples > 0
RingAppend(buf, chunk) ==
    LET n == Cols(chunk)
        c == Cols(buf)
    IN IF n >= c
       THEN [r \in DOMAIN chunk |-> PyTail(chunk[r], c)]
       ELSE [r \in DOMAIN buf |-> PyFrom(buf[r], n) \o chunk[r]]

\* the requested size taken as it is
NewBufSizeNoFloor(fs, tenths) == (fs * tenths) \div 10

\* int(self.sampling_rate * new_window_sec) with the floor of 10
NewBufSize(fs, tenths) == Max((fs * tenths) \div 10, MinBufSize)

\* the assignment new_buf[:, -copy_len:] = old_buf[:, -copy_len:] raises
\* unless the row counts agree (or the right side has one row to broadcast)
ResizeRaises(buf, nch) == buf = NoBuffer \/ (Rows(buf) # nch /\ Rows(buf) # 1)

\* resize_stream_buffer: the new matrix
ResizedBuffer(buf, nch, size) ==
    LET k == Min(Cols(buf), size)
    IN [r \in Range(nch) |->
          Fill(size - k, NaN) \o PyTail(buf[IF Rows(buf) = 1 THEN 0 ELSE r], k)]

\* ------------------------------------------------------ recording samples
\* Stand-in for the samples of a recording, in microvolts: channel ch repeats
\* the four levels below, scaled by a gain that depends on the recording and
\* the channel (gain 0: a flat channel).  prepare_data reads a channel through
\* np.quantile, np.min and np.max only, which do not depend on the order of
\* the samples, so a channel is given as the bag value -> number of samples.
Levels == <<-3, 1, 0, 2>>

ChannelGain(raw, ch) == ((raw.cols \div 2) + ch) % 3

ChannelSamples(raw, ch) ==
    LET n == raw.cols
        g == ChannelGain(raw, ch)
        cnt(i) == (n \div 4) + (IF i - 1 < n % 4 THEN 1 ELSE 0)
        vals == {g * Levels[i] : i \in {j \in 1 .. 4 : cnt(j) > 0}}
        of(v, i) == IF g * Levels[i] = v THEN cnt(i) ELSE 0
    IN [v \in vals |-> of(v, 1) + of(v, 2) + of(v, 3) + of(v, 4)]

\* ------------------------------------------------------- spectral caches
\* channels visited by a loop "for ch in sorted(active): if ch < nch: m[ch]"
\* before the first one that raises; bad: the candidates that raise
Visited(active, nch, bad) ==
    {ch \in active : ch < nch /\ \A b \in bad : b < nch => ch < b}

LoopRaises(active, nch, bad) == \E ch \in active : ch < nch /\ ch \in bad

\* update_fft on the ring buffer: the EMA blend raises on a length mismatch
update_fft(buf, active, nch, fs, sfft) ==
    LET shape == FFTBins(Cols(buf), fs)
        bad == {ch \in active : ch >= Rows(buf) \/ (ch \in DOMAIN sfft /\ sfft[ch] # shape)}
        V == Visited(active, nch, bad)
    IN IF active = {} \/ buf = NoBuffer
       THEN [sfft |-> sfft, raised |-> FALSE]
       ELSE [sfft |-> [ch \in (DOMAIN sfft) \cup V |-> IF ch \in V THEN shape ELSE sfft[ch]],
             raised |-> LoopRaises(active, nch, bad)]

\* ------------------------------------------------------------- band power
\* Band powers and the ceiling of their axis are held in fixed point, a
\* quotient rounded to the nearest unit.
Round(a, b) == (2 * a + b) \div (2 * b)

Abs(x) == IF x < 0 THEN 0 - x ELSE x

BandNames == <<"Delta", "Theta", "Alpha", "Mu", "Beta", "Gamma">>

\* the band edges, in half hertz
BandEdges == [Delta |-> <<1, 8>>, Theta |-> <<8, 16>>, Alpha |-> <<16, 26>>,
              Mu |-> <<16, 24>>, Beta |-> <<26, 60>>, Gamma |-> <<60, 100>>]

\* np.any(band_mask) on the frequencies k * fs / nperseg, 0 <= k <= nperseg // 2,
\* that welch(data, fs, nperseg=min(256, len(data))) returns for n samples
BandHasBin(b, n, fs) ==
    LET nperseg == Min(256, n)
    IN \E k \in 0 .. (nperseg \div 2) :
          BandEdges[b][1] * nperseg <= 2 * k * fs /\ 2 * k * fs < BandEdges[b][2] * nperseg

\* Stand-in for np.mean(psd[band_mask]) of welch on a row: the sentinel when
\* the row holds one, else the peak of the row weighted by the band, in
\* units of PowerUnit
PowerUnit == 16

BandShare == [Delta |-> 4, Theta |-> 3, Alpha |-> 2, Mu |-> 2, Beta |-> 1, Gamma |-> 1]

Peak(data) ==
    LET S == {Abs(data[j]) : j \in 1 .. Len(data)}
    IN IF S = {} THEN 0 ELSE CHOOSE m \in S : \A x \in S : x <= m

\* what the stand-in reads of a row: its length, whether it holds the
\* sentinel, and its peak
RowStats(data) ==
    [n |-> Len(data), nan |-> \E j \in 1 .. Len(data) : data[j] = NaN, peak |-> Peak(data)]

BandMean(row, b) ==
    IF row.nan THEN NaN ELSE Round(BandShare[b] * row.peak, PowerUnit)

\* float addition: the sentinel absorbs
Add(a, b) == IF a = NaN \/ b = NaN THEN NaN ELSE a + b

\* band_powers[b] after the loop over the rows (channel -> RowStats)
RECURSIVE SumBand(_, _, _, _)
SumBand(rows, S, b, fs) ==
    IF S = {} THEN 0
    ELSE LET ch == CHOOSE c \in S : TRUE
         IN Add(IF BandHasBin(b, rows[ch].n, fs) THEN BandMean(rows[ch], b) ELSE 0,
                SumBand(rows, S \ {ch}, b, fs))

\* band_powers after the division by len(self.active_channels)
AverageBandPowers(rows, num_active, fs) ==
    [b \in Bands |-> LET sum == SumBand(rows, DOMAIN rows, b, fs)
                     IN IF sum = NaN THEN NaN ELSE Round(sum, num_active)]

\* band_power_smoothing_alpha * new + (1 - band_power_smoothing_alpha) * old
Ema(new, old) ==
    IF new = NaN \/ old = NaN THEN NaN
    ELSE Round(BandAlphaTenths * new + (10 - BandAlphaTenths) * old, 10)

\* max(band_values): the first value, replaced by each later one that
\* compares greater (no comparison with the sentinel is true)
RECURSIVE PyMaxFrom(_, _, _)
PyMaxFrom(vals, i, m) ==
    IF i > Len(BandNames) THEN m
    ELSE LET x == vals[BandNames[i]]
         IN PyMaxFrom(vals, i + 1, IF x # NaN /\ m # NaN /\ x > m THEN x ELSE m)

PyMax(vals) == PyMaxFrom(vals, 2, vals[BandNames[1]])

\* the axis ceiling after an update that observed current_max
NextCeiling(y_max, current_max) ==
    IF current_max # NaN /\ y_max # NaN /\ current_max > y_max THEN current_max
    ELSE IF current_max = NaN \/ y_max = NaN THEN NaN
    ELSE Round(DecayPerMille * y_max + (1000 - DecayPerMille) * current_max, 1000)

\* the band-power state: the bands smoothed_band_power has an entry for,
\* their values, and the axis ceiling
BandState == [sbp |-> smoothed_band_power, sbv |-> smoothed_band_value,
              y_max |-> band_power_y_max]

\* the outcome of a handler that returned or raised before the EMA
Untouched(bs) ==
    [sbp |-> bs.sbp, sbv |-> bs.sbv, y_max |-> bs.y_max, updated |-> FALSE, from |-> Unset]

\* the tail both band-power handlers share: the EMA (a copy the first
\* time), the bar heights band_values and the axis ceiling
ShowBandPower(band_powers, bs) ==
    LET vals == [b \in Bands |-> IF bs.sbp # {} /\ b \in bs.sbp
                                 THEN Ema(band_powers[b], bs.sbv[b])
                                 ELSE band_powers[b]]
    IN [sbp |-> Bands, sbv |-> vals, y_max |-> NextCeiling(bs.y_max, PyMax(vals)),
        updated |-> TRUE, from |-> bs.y_max]

\* np.nan_to_num(row, nan=0.0)
NanToNum(row) == [j \in 1 .. Len(row) |-> IF row[j] = NaN THEN 0 ELSE row[j]]

\* update_band_power on the ring buffer
update_band_power(buf, active, nch, fs, bs) ==
    LET bad == {ch \in active : ch >= Rows(buf)}
    IN IF active = {} \/ buf = NoBuffer \/ LoopRaises(active, nch, bad)
       THEN Untouched(bs)
       ELSE ShowBandPower(
              AverageBandPowers([ch \in Visited(active, nch, bad) |-> RowStats(NanToNum(buf[ch]))],
                                Cardinality(active), fs), bs)

\* what the handlers assign to the band-power state
SetBand(b) ==
    /\ smoothed_band_power' = b.sbp /\ smoothed_band_value' = b.sbv
    /\ band_power_y_max' = b.y_max
    /\ h_ceiling_before' = IF b.updated THEN b.from ELSE h_ceiling_before

\* self.smoothed_band_power = {}; self.band_power_y_max = 0.0
ResetBand ==
    /\ smoothed_band_power' = {} /\ smoothed_band_value' = EmptyDict
    /\ band_power_y_max' = 0 /\ h_ceiling_before' = Unset

\* update_streaming_plots raises when an active channel has no buffer row or
\* the time axis and the buffer differ in length
PlotsRaise(buf, active, nch, axis) ==
    active # {} /\ \E ch \in active : ch < nch /\ (ch >= Rows(buf) \/ axis # Cols(buf))

\* ------------------------------------------------------ display smoothing
\* the sum of k cells of data from index j on, an index outside 1 .. n read
\* as the nearest cell (mode='nearest') and a sentinel cell as 0.0
RECURSIVE SumNearest(_, _, _, _)
SumNearest(data, n, j, k) ==
    IF k = 0 THEN 0
    ELSE LET c == data[Max(1, Min(n, j))]
         IN (IF c = NaN THEN 0 ELSE c) + SumNearest(data, n, j + 1, k - 1)

\* smooth_display_data(data) at sampling rate fs: the row as it is (win 1)
\* when the window is one sample or the row is all sentinel; else, in units
\* of 1 / win, uniform_filter1d(clean, size=win, mode='nearest'), whose
\* window at i covers i - win // 2 .. i - win // 2 + win - 1, with the
\* sentinel put back where the row had it
smooth_display_data(data, fs) ==
    LET win == Max(1, (SmoothMs * fs) \div 1000)
        n == Len(data)
    IN IF win <= 1 \/ \A j \in 1 .. n : data[j] = NaN
       THEN [win |-> 1, out |-> data]
       ELSE [win |-> win,
             out |-> [i \in 1 .. n |->
                        IF data[i] = NaN THEN NaN
                        ELSE SumNearest(data, n, i - (win \div 2), win)]]

\* ------------------------------------------------------ file-side helpers
\* a window count without the window that starts at sample 0
RecalculateWindowsNoFirst(w, fs, raw) ==
    LET wss == (w * fs) \div 10
        st == (wss * 8) \div 10
    IN [window_size_samples |-> wss, stride |-> st,
        raised |-> (raw.kind = "none" \/ st = 0),
        num_windows |-> IF st = 0 THEN 0 ELSE Max(1, (raw.cols - wss) \div st),
        num_channels |-> raw.rows, full_time_axis |-> raw.cols]

\* recalculate_windows that also counts a last window the recording only
\* partly fills
RecalculateWindowsPartial(w, fs, raw) ==
    LET wss == (w * fs) \div 10
        st == (wss * 8) \div 10
    IN [window_size_samples |-> wss, stride |-> st,
        raised |-> (raw.kind = "none" \/ st = 0),
        num_windows |-> IF st = 0 THEN 0
                        ELSE Max(1, ((raw.cols - wss + st - 1) \div st) + 1),
        num_channels |-> raw.rows, full_time_axis |-> raw.cols]

\* recalculate_windows for window length w (tenths of a second), rate fs and
\* recording raw; raised: raw_data is None or the stride is 0, after
\* window_size_samples and stride were assigned
recalculate_windows(w, fs, raw) ==
    LET wss == (w * fs) \div 10
        st == (wss * 8) \div 10
    IN [window_size_samples |-> wss, stride |-> st,
        raised |-> (raw.kind = "none" \/ st = 0),
        num_windows |-> IF st = 0 THEN 0 ELSE Max(1, ((raw.cols - wss) \div st) + 1),
        num_channels |-> raw.rows, full_time_axis |-> raw.cols]

\* window bounds whose end is not clamped to the length of the axis
GetWindowBoundsUnclamped(i, st, wss, fta) ==
    [start |-> Max(0, i * st), end |-> Max(0, i * st) + wss]

\* window bounds that step by the window length instead of the stride
GetWindowBoundsNoOverlap(i, st, wss, fta) ==
    [start |-> Max(0, i * wss), end |-> Min(Max(0, i * wss) + wss, fta)]

\* get_window_bounds(window_idx)
get_window_bounds(i, st, wss, fta) ==
    [start |-> Max(0, i * st), end |-> Min(Max(0, i * st) + wss, fta)]

\* int(x) for the quotient x = a / b of integers, b > 0: truncation toward
\* zero
IntTrunc(a, b) == IF a >= 0 THEN a \div b ELSE 0 - ((0 - a) \div b)

\* get_window_from_time(t_center) for a time of t tenths of a second; raised:
\* the floor division by a stride of 0
get_window_from_time(t, fs, st, nw) ==
    IF st = 0 THEN [raised |-> TRUE, idx |-> 0]
    ELSE [raised |-> FALSE,
          idx |-> Max(0, Min(IntTrunc(t * fs, 10) \div st, nw - 1))]

\* the window update_window_controls_from_view finds after navigate_to_window
\* set the view to the times of samples wb.start and min(wb.end - 1, n - 1)
\* of an axis of n samples: the sample at the centre of the view, by stride
ViewWindow(wb, n, st, nw) ==
    Max(0, Min(((wb.start + Min(wb.end - 1, n - 1)) \div 2) \div st, nw - 1))

\* len(x[s:e]) for an axis of length n
SliceLen(n, s, e) == Max(0, Min(e, n) - Min(s, n))

\* sync_navigation_controls: the clamped current_window
ClampWindow(cw, nw) == Max(0, Min(cw, nw - 1))

\* update_plot (stacked mode) raises on a window start past the time axis or
\* an active channel the recording has no row for
UpdatePlotRaises(active, raw, wb, fta) ==
    active # {} /\ (wb.start >= fta \/ \E ch \in active : ch >= raw.rows)

\* calculate_fft_for_file: a mismatching cache entry is dropped and reseeded
calculate_fft_for_file(active, nch, raw, wb, fs, sfft) ==
    LET n == SliceLen(raw.cols, wb.start, wb.end)
        bad == {ch \in active : ch >= raw.rows \/ n = 0}
        V == Visited(active, nch, bad)
    IN IF active = {} \/ raw.kind = "none"
       THEN [sfft |-> sfft, raised |-> FALSE]
       ELSE [sfft |-> [ch \in (DOMAIN sfft) \cup V |->
                         IF ch \in V THEN FFTBins(n, fs) ELSE sfft[ch]],
             raised |-> LoopRaises(active, nch, bad)]

\* sample k (from 0) of row ch of a recording
FileSample(raw, ch, k) == ChannelGain(raw, ch) * Levels[(k % 4) + 1]

\* RowStats of self.raw_data[ch, start:end].  The samples of a recording
\* repeat after four, so the first four of the slice hold its peak.  During
\* a session raw_data is the ring buffer (a buffer raw_data still refers to
\* after stream_buffer was replaced by one of another shape is read as
\* zeros).
WindowStats(raw, ch, wb) ==
    LET s == Min(wb.start, raw.cols)
        e == Max(s, Min(wb.end, raw.cols))
    IN IF raw.kind = "file"
       THEN [n |-> e - s, nan |-> FALSE,
             peak |-> Peak([j \in 1 .. Min(e - s, 4) |-> FileSample(raw, ch, s + j - 1)])]
       ELSE IF stream_buffer # NoBuffer /\ ch < Rows(stream_buffer)
               /\ Cols(stream_buffer) = raw.cols
       THEN RowStats(SubSeq(stream_buffer[ch], s + 1, e))
       ELSE [n |-> e - s, nan |-> FALSE, peak |-> 0]

\* calculate_band_power_for_file
calculate_band_power_for_file(active, nch, raw, wb, fs, bs) ==
    LET n == SliceLen(raw.cols, wb.start, wb.end)
        bad == {ch \in active : ch >= raw.rows \/ n = 0}
    IN IF active = {} \/ raw.kind = "none" \/ LoopRaises(active, nch, bad)
       THEN Untouched(bs)
       ELSE ShowBandPower(
              AverageBandPowers([ch \in Visited(active, nch, bad) |-> WindowStats(raw, ch, wb)],
                                Cardinality(active), fs), bs)

\* calculate_fft_for_file(); calculate_band_power_for_file()
FileSpectra(active, nch, raw, wb, fs, sfft, bs) ==
    LET f == calculate_fft_for_file(active, nch, raw, wb, fs, sfft)
    IN [sfft |-> f.sfft,
        band |-> IF f.raised THEN Untouched(bs)
                 ELSE calculate_band_power_for_file(active, nch, raw, wb, fs, bs)]

\* update_plot(); calculate_fft_for_file(); calculate_band_power_for_file()
\* as run by the channel handlers while a file is shown
FileRefresh(active, nch, raw, wb, fta, fs, sfft, bs) ==
    IF UpdatePlotRaises(active, raw, wb, fta)
    THEN [sfft |-> sfft, band |-> Untouched(bs)]
    ELSE FileSpectra(active, nch, raw, wb, fs, sfft, bs)

\* the spectral state of a handler that ran neither file routine
SameSpectra == [sfft |-> smoothed_fft, band |-> Untouched(BandState)]

\* the window the handlers read their data from
CurrentBounds == get_window_bounds(current_window, stride, window_size_samples, full_time_axis)

\* --------------------------------------------------------- vertical bounds
\* number of samples of the bag below v
RECURSIVE CountBelow(_, _, _)
CountBelow(bag, v, S) ==
    IF S = {} THEN 0
    ELSE LET u == CHOOSE x \in S : TRUE
         IN (IF u < v THEN bag[u] ELSE 0) + CountBelow(bag, v, S \ {u})

\* np.sort(data)[k]
KthSmallest(bag, k) ==
    CHOOSE v \in DOMAIN bag :
        \A below \in {CountBelow(bag, v, DOMAIN bag)} : below <= k /\ k < below + bag[v]

\* 4 * np.quantile(data, num / 4) for a channel of n samples (method
\* 'linear': the virtual index (n - 1) * q, interpolated between its two
\* neighbours)
Quantile4(bag, n, num) ==
    LET pos4 == num * (n - 1)
        lo == pos4 \div 4
        hi == Min(lo + 1, n - 1)
        a == KthSmallest(bag, lo)
        b == KthSmallest(bag, hi)
    IN 4 * a + (pos4 % 4) * (b - a)

\* a fence of 1.5 interquartile ranges
IqrBoundsTukey(bag, n) ==
    LET q1 == Quantile4(bag, n, 1)
        q3 == Quantile4(bag, n, 3)
        iqr == q3 - q1
    IN <<q1 - (iqr * 3) \div 2, q3 + (iqr * 3) \div 2>>

\* (q1 - iqr * 5.0, q3 + iqr * 5.0), in quarters of a microvolt
IqrBounds(bag, n) ==
    LET q1 == Quantile4(bag, n, 1)
        q3 == Quantile4(bag, n, 3)
        iqr == q3 - q1
    IN <<q1 - iqr * 5, q3 + iqr * 5>>

\* (np.min(channel_data), np.max(channel_data)), in quarters of a microvolt
MinMaxBounds(bag) ==
    <<4 * (CHOOSE v \in DOMAIN bag : \A u \in DOMAIN bag : v <= u),
      4 * (CHOOSE v \in DOMAIN bag : \A u \in DOMAIN bag : v >= u)>>

\* np.quantile of an empty channel returns nan or raises, by numpy version
EmptyQuantileIsNaN == BOOLEAN

\* the bounds loop of prepare_data over nch channels of raw.  An empty
\* channel raises in the first pass: at np.quantile, or at np.min after the
\* IQR entry of nan was stored (nanq).
prepare_bounds(raw, nch, nanq) ==
    IF nch > 0 /\ raw.cols = 0
    THEN [iqr |-> IF nanq THEN [ch \in {0} |-> <<NaN, NaN>>] ELSE EmptyDict,
          minmax |-> EmptyDict, raised |-> TRUE]
    ELSE [iqr |-> [ch \in Range(Min(nch, raw.rows)) |->
                      IqrBounds(ChannelSamples(raw, ch), raw.cols)],
          minmax |-> [ch \in Range(Min(nch, raw.rows)) |->
                         MinMaxBounds(ChannelSamples(raw, ch))],
          raised |-> nch > raw.rows]

\* the loop shared by get_iqr_bounds_for_channels and
\* get_minmax_bounds_for_channels, over the channels of chs from ch upwards
\* (a set of small integers iterates in ascending order); a channel without
\* an entry raises KeyError, nan compares False
RECURSIVE GreatestRange(_, _, _, _, _)
GreatestRange(ch, chs, bounds, max_range, best_bounds) ==
    IF \A c \in chs : c < ch THEN best_bounds
    ELSE IF ch \notin chs THEN GreatestRange(ch + 1, chs, bounds, max_range, best_bounds)
    ELSE IF ch \notin DOMAIN bounds THEN [ret |-> "raised", lo |-> 0, hi |-> 0]
    ELSE LET range_size == bounds[ch][2] - bounds[ch][1]
         IN IF bounds[ch][1] # NaN /\ range_size > max_range
            THEN GreatestRange(ch + 1, chs, bounds, range_size,
                               [ret |-> "pair", lo |-> bounds[ch][1], hi |-> bounds[ch][2]])
            ELSE GreatestRange(ch + 1, chs, bounds, max_range, best_bounds)

\* get_iqr_bounds_for_channels(channel_indices): (0, 1) for no channels
get_iqr_bounds_for_channels(chs, bounds) ==
    IF chs = {} THEN [ret |-> "pair", lo |-> 0, hi |-> 4]
    ELSE GreatestRange(0, chs, bounds, 0, [ret |-> "None", lo |-> 0, hi |-> 0])

\* get_minmax_bounds_for_channels(channel_indices)
get_minmax_bounds_for_channels(chs, bounds) ==
    IF chs = {} THEN [ret |-> "pair", lo |-> 0, hi |-> 4]
    ELSE GreatestRange(0, chs, bounds, 0, [ret |-> "None", lo |-> 0, hi |-> 0])

\* get_bounds_for_channels(channel_indices)
get_bounds_for_channels(chs) ==
    IF vertical_bounds_mode = "iqr"
    THEN get_iqr_bounds_for_channels(chs, channel_iqr_bounds)
    ELSE get_minmax_bounds_for_channels(chs, channel_minmax_bounds)

\* -------------------------------------------------------- session control
\* a full second of warmup instead of half of one
WarmupSamplesWholeSecond(fs) == fs

\* int(self.sampling_rate * 0.5): the samples a session discards first
WarmupSamples(fs) == fs \div 2

\* toggle_streaming_visualization, start branch; d is the number of stale
\* samples the drain removes from the board
StartVisualization(d) ==
    /\ streaming_active' = TRUE /\ stream_timer' = TRUE /\ file_loaded' = TRUE
    /\ smoothed_fft' = EmptyDict /\ ResetBand
    /\ bandpass_zi' = EmptyDict /\ notch_zi' = EmptyDict
    /\ stream_buffer' = IF stream_buffer = NoBuffer THEN NoBuffer
                        ELSE Full(Rows(stream_buffer), Cols(stream_buffer), NaN)
    /\ board_pos' = IF board THEN board_pos + d ELSE board_pos
    /\ stream_warmup_remaining' = WarmupSamples(sampling_rate)
    /\ window_controls_enabled' = TRUE /\ mode_radio_enabled' = FALSE
    /\ h_session_fs' = sampling_rate
    /\ h_filtered' = EmptyRows /\ h_admitted' = EmptyRows /\ h_spectral' = << >>
    /\ h_last_n' = 0 /\ h_last_kept' = 0 /\ h_resized' = "no"
    /\ UNCHANGED <<mode, autoplay_timer, autoplay_active, board, eeg_channels, outletVars, configVars,
                   fileVars, windowVars, stream_time_axis, filter_coeffs_valid, bandpass_fs,
                   notch_fs, zi_template_fs, fft_update_counter, channelVars,
                   sampling_rate_spinbox_enabled, channel_group_enabled, nav_widget_enabled,
                   h_ticks, h_faults, h_appends, h_last_fail>>

\* a stop branch that also resets what the start branch resets
StopVisualizationClearing ==
    /\ streaming_active' = FALSE /\ stream_timer' = FALSE /\ file_loaded' = FALSE
    /\ mode_radio_enabled' = TRUE
    /\ smoothed_fft' = EmptyDict /\ ResetBand
    /\ bandpass_zi' = EmptyDict /\ notch_zi' = EmptyDict
    /\ stream_buffer' = IF stream_buffer = NoBuffer THEN NoBuffer
                        ELSE Full(Rows(stream_buffer), Cols(stream_buffer), NaN)
    /\ UNCHANGED <<mode, autoplay_timer, autoplay_active, boardVars, configVars, fileVars,
                   windowVars, stream_time_axis, stream_warmup_remaining,
                   filter_coeffs_valid, bandpass_fs, notch_fs, zi_template_fs,
                   fft_update_counter, channelVars, sampling_rate_spinbox_enabled,
                   window_controls_enabled, channel_group_enabled, nav_widget_enabled,
                   histVars>>

\* toggle_streaming_visualization, stop branch
StopVisualization ==
    /\ streaming_active' = FALSE /\ stream_timer' = FALSE /\ file_loaded' = FALSE
    /\ mode_radio_enabled' = TRUE
    /\ UNCHANGED <<mode, autoplay_timer, autoplay_active, boardVars, configVars, fileVars,
                   windowVars, bufferVars, filterVars, spectralVars, channelVars,
                   sampling_rate_spinbox_enabled, window_controls_enabled,
                   channel_group_enabled, nav_widget_enabled, histVars>>

toggle_streaming_visualization ==
    IF ~ streaming_active
    THEN \E d \in (IF board THEN DrainSizes ELSE {0}) : StartVisualization(d)
    ELSE StopVisualization

\* toggle_play_pause
toggle_play_pause ==
    IF ~ file_loaded
    THEN UNCHANGED vars
    ELSE /\ autoplay_timer' = ~ autoplay_timer
         /\ autoplay_active' = (autoplay_active \/ ~ autoplay_timer)
         /\ UNCHANGED <<mode, file_loaded, streaming_active, stream_timer, boardVars,
                        configVars, fileVars, windowVars, bufferVars, filterVars,
                        spectralVars, channelVars, widgetVars, histVars>>

\* on_spacebar: the Space shortcut (always active) and the play/pause button
on_spacebar ==
    IF mode = "stream" THEN toggle_streaming_visualization ELSE toggle_play_pause

\* click on start_viz_btn (enabled while a board is connected, inside the
\* streaming group)
StartVizClicked ==
    /\ mode = "stream" /\ board
    /\ toggle_streaming_visualization

\* on_mode_changed with radio buttons that stay enabled during a session
on_mode_changed_radios_enabled ==
    /\ mode' = IF mode = "file" THEN "stream" ELSE "file"
    /\ UNCHANGED <<file_loaded, streaming_active, stream_timer, autoplay_timer,
                   autoplay_active, boardVars, configVars, fileVars, windowVars,
                   bufferVars, filterVars, spectralVars, channelVars, widgetVars, histVars>>

\* on_mode_changed: the user selects the other radio button
on_mode_changed ==
    /\ mode_radio_enabled
    /\ mode' = IF mode = "file" THEN "stream" ELSE "file"
    /\ UNCHANGED <<file_loaded, streaming_active, stream_timer, autoplay_timer,
                   autoplay_active, boardVars, configVars, fileVars, windowVars,
                   bufferVars, filterVars, spectralVars, channelVars, widgetVars, histVars>>

\* toggle_all_channels(state) on the selection alone
AllChannels(checked, nch) == IF checked THEN Range(nch) ELSE {}

\* auto_connect_headset with a board found (or the synthetic board accepted);
\* ends with setup_streaming_channels, whose setChecked(True) on the
\* select-all box runs toggle_all_channels when the box was not checked
auto_connect_headset(rate) ==
    /\ mode = "stream" /\ ~ board
    /\ LET size == (rate * window_size_sec) \div 10
           c == calculate_filter_coefficients(rate)
       IN /\ board' = TRUE /\ board_pos' = 0 /\ eeg_channels' = BoardChannels
          /\ UNCHANGED outletVars
          /\ num_channels' = BoardChannels /\ sampling_rate' = rate
          /\ stream_buffer' = Full(BoardChannels, size, 0)
          /\ stream_time_axis' = size
          /\ filter_coeffs_valid' = c.valid /\ bandpass_fs' = c.bfs /\ notch_fs' = c.nfs
          /\ zi_template_fs' = c.tfs /\ bandpass_zi' = c.bz /\ notch_zi' = c.nz
          /\ sampling_rate_spinbox_enabled' = FALSE /\ channel_group_enabled' = TRUE
          /\ select_all_checkbox' = "checked"
          /\ channel_checkboxes' = [i \in Range(BoardChannels) |-> select_all_checkbox # "checked"]
          /\ active_channels' = IF select_all_checkbox # "checked"
                                THEN AllChannels(TRUE, BoardChannels) ELSE {}
          /\ LET r == IF select_all_checkbox # "checked" /\ file_loaded /\ ~ streaming_active
                      THEN FileRefresh(AllChannels(TRUE, BoardChannels), BoardChannels,
                                       raw_data, CurrentBounds, full_time_axis, rate,
                                       smoothed_fft, BandState)
                      ELSE SameSpectra
             IN smoothed_fft' = r.sfft /\ SetBand(r.band)
    /\ UNCHANGED <<flagVars, window_size_sec, magnitude_scale, magnitude_combo, updateVars, fileVars,
                   windowVars, stream_warmup_remaining, fft_update_counter, mode_radio_enabled,
                   window_controls_enabled, nav_widget_enabled, histVars>>

\* disconnect_headset (the connect button while a board is connected)
disconnect_headset ==
    /\ mode = "stream" /\ board
    /\ board' = FALSE
    /\ eeg_outlet' = FALSE
    /\ sampling_rate_spinbox_enabled' = TRUE
    /\ IF streaming_active
       THEN /\ streaming_active' = FALSE /\ stream_timer' = FALSE /\ file_loaded' = FALSE
            /\ mode_radio_enabled' = TRUE
       ELSE UNCHANGED <<streaming_active, stream_timer, file_loaded, mode_radio_enabled>>
    /\ UNCHANGED <<mode, autoplay_timer, autoplay_active, board_pos, eeg_channels,
                   start_eeg_stream_btn, h_pushed, configVars,
                   fileVars, windowVars, bufferVars, filterVars, spectralVars, channelVars,
                   window_controls_enabled, channel_group_enabled, nav_widget_enabled,
                   histVars>>

\* click on start_eeg_stream_btn (enabled while a board is connected) while
\* its slot is start_eeg_stream; ok: pylsl is there, the patient id is not
\* empty and StreamOutlet(info) does not raise
start_eeg_stream(ok) ==
    /\ mode = "stream" /\ board /\ start_eeg_stream_btn = "start"
    /\ IF eeg_outlet \/ ~ ok
       THEN UNCHANGED <<eeg_outlet, start_eeg_stream_btn>>
       ELSE eeg_outlet' = TRUE /\ start_eeg_stream_btn' = "stop"
    /\ UNCHANGED <<flagVars, board, board_pos, eeg_channels, h_pushed, configVars, fileVars,
                   windowVars, bufferVars, filterVars, spectralVars, channelVars, widgetVars,
                   histVars>>

\* click on start_eeg_stream_btn while its slot is stop_eeg_stream
stop_eeg_stream ==
    /\ mode = "stream" /\ board /\ start_eeg_stream_btn = "stop"
    /\ eeg_outlet' = FALSE /\ start_eeg_stream_btn' = "start"
    /\ UNCHANGED <<flagVars, board, board_pos, eeg_channels, h_pushed, configVars, fileVars,
                   windowVars, bufferVars, filterVars, spectralVars, channelVars, widgetVars,
                   histVars>>

\* ------------------------------------------------------------------ updater
\* A tag is a tuple of characters.
DigitValue == [c \in {"0", "1", "2", "3", "4", "5", "6", "7", "8", "9"} |->
                 CASE c = "0" -> 0 [] c = "1" -> 1 [] c = "2" -> 2 [] c = "3" -> 3
                   [] c = "4" -> 4 [] c = "5" -> 5 [] c = "6" -> 6 [] c = "7" -> 7
                   [] c = "8" -> 8 [] OTHER -> 9]

\* int(s) for a text of letters, digits, "-", "+" and ".": an optional sign
\* and at least one digit, else ValueError
RECURSIVE DigitsValue(_, _)
DigitsValue(s, acc) ==
    IF s = << >> THEN acc
    ELSE DigitsValue(Tail(s), 10 * acc + DigitValue[Head(s)])

PyInt(s) ==
    LET signed == s # << >> /\ Head(s) \in {"-", "+"}
        body == IF signed THEN Tail(s) ELSE s
    IN IF body = << >> \/ \E i \in 1 .. Len(body) : body[i] \notin DOMAIN DigitValue
       THEN [raised |-> TRUE, value |-> 0]
       ELSE [raised |-> FALSE,
             value |-> IF signed /\ Head(s) = "-" THEN 0 - DigitsValue(body, 0)
                       ELSE DigitsValue(body, 0)]

BuildPrefix == <<"b", "u", "i", "l", "d", "-">>

\* tag.startswith("build-")
StartsWithBuild(tag) ==
    Len(tag) >= Len(BuildPrefix) /\ SubSeq(tag, 1, Len(BuildPrefix)) = BuildPrefix

\* _parse_build_number(tag): [none, value]; tag.split("-", 1)[1] is what
\* follows the first "-", which ends the prefix
parse_build_number(tag) ==
    IF tag # << >> /\ StartsWithBuild(tag)
    THEN LET n == PyInt(SubSeq(tag, Len(BuildPrefix) + 1, Len(tag)))
         IN [none |-> n.raised, value |-> n.value]
    ELSE [none |-> TRUE, value |-> 0]

\* _asset_name_for_platform() for platform.system() = system
asset_name_for_platform(system) ==
    CASE system = "Darwin" -> "NeuroTechGUI_macOS.zip"
      [] system = "Windows" -> "NeuroTechGUI_Windows.exe"
      [] OTHER -> "NeuroTechGUI_Linux"

\* (None, None); a pair returned is [pair |-> TRUE, tag, url]
NonePair == [pair |-> FALSE, tag |-> << >>, url |-> ""]

\* the first asset of the list with the name wanted, 0 if there is none
FirstAsset(assets, name) ==
    LET S == {i \in 1 .. Len(assets) : assets[i].name = name}
    IN IF S = {} THEN 0 ELSE CHOOSE i \in S : \A j \in S : i <= j

\* check_for_updates that lets a release with the running build number pass
CheckForUpdatesSameBuild(current, system, resp) ==
    IF resp.kind # "ok" THEN NonePair
    ELSE LET latest_tag == IF resp.has_tag THEN resp.tag ELSE << >>
             current_num == parse_build_number(current)
             latest_num == parse_build_number(latest_tag)
             i == FirstAsset(resp.assets, asset_name_for_platform(system))
         IN IF ~ current_num.none /\ ~ latest_num.none /\ latest_num.value < current_num.value
            THEN NonePair
            ELSE IF (current_num.none \/ latest_num.none) /\ latest_tag = current
            THEN NonePair
            ELSE IF i = 0 THEN NonePair
            ELSE [pair |-> TRUE, tag |-> latest_tag, url |-> resp.assets[i].browser_download_url]

\* check_for_updates() for CURRENT_VERSION = current and platform.system() =
\* system; resp is what requests.get gave: kind "error" (a RequestException,
\* raise_for_status included), "invalid" (resp.json() raises ValueError) or
\* "ok" with the release as [has_tag, tag, assets]
CheckForUpdates(current, system, resp) ==
    IF resp.kind # "ok" THEN NonePair
    ELSE LET latest_tag == IF resp.has_tag THEN resp.tag ELSE << >>
             current_num == parse_build_number(current)
             latest_num == parse_build_number(latest_tag)
             i == FirstAsset(resp.assets, asset_name_for_platform(system))
         IN IF ~ current_num.none /\ ~ latest_num.none /\ latest_num.value <= current_num.value
            THEN NonePair
            ELSE IF (current_num.none \/ latest_num.none) /\ latest_tag = current
            THEN NonePair
            ELSE IF i = 0 THEN NonePair
            ELSE [pair |-> TRUE, tag |-> latest_tag, url |-> resp.assets[i].browser_download_url]

\* check_for_updates() called with the inputs of one run; update_check keeps
\* them beside what it returned
check_for_updates(current, system, resp) ==
    /\ update_check' = [called |-> TRUE, current |-> current, system |-> system,
                        resp |-> resp, result |-> CheckForUpdates(current, system, resp)]
    /\ UNCHANGED <<flagVars, boardVars, num_channels, sampling_rate, window_size_sec,
                   magnitude_scale, magnitude_combo, fileVars, windowVars, bufferVars,
                   filterVars, spectralVars, channelVars, widgetVars, histVars>>

\* the tags drawn: CURRENT_VERSION and the tag_name of the latest release
Build42 == <<"b", "u", "i", "l", "d", "-", "4", "2">>
Build41 == <<"b", "u", "i", "l", "d", "-", "4", "1">>
Build43 == <<"b", "u", "i", "l", "d", "-", "4", "3">>
Build9 == <<"b", "u", "i", "l", "d", "-", "9">>
Build042 == <<"b", "u", "i", "l", "d", "-", "0", "4", "2">>
BuildBare == <<"b", "u", "i", "l", "d", "-">>
BuildRc == <<"b", "u", "i", "l", "d", "-", "4", "3", "-", "r", "c">>
V2 == <<"v", "2", ".", "0">>
Dev == <<"d", "e", "v">>
CurrentVersions == {Build42, Dev, Build9}
LatestTags == {Build42, Build41, Build43, Build9, Build042, BuildBare, BuildRc, V2, Dev}
Systems == {"Darwin", "Windows", "Linux"}
Asset(name, url) == [name |-> name, browser_download_url |-> url]
AssetLists ==
    { << >>,
      <<Asset("NeuroTechGUI_Linux", "dl/linux")>>,
      <<Asset("NeuroTechGUI_macOS.zip", "dl/mac"), Asset("NeuroTechGUI_Windows.exe", "dl/win")>>,
      <<Asset("source.tar.gz", "dl/src"), Asset("NeuroTechGUI_Windows.exe", "dl/win"),
        Asset("NeuroTechGUI_Linux", "dl/linux"), Asset("NeuroTechGUI_Linux", "dl/linux2")>> }
Responses ==
    {[kind |-> "error"], [kind |-> "invalid"], [kind |-> "ok", has_tag |-> FALSE, tag |-> << >>,
                                                assets |-> <<Asset("NeuroTechGUI_Linux", "dl/linux")>>]}
      \cup {[kind |-> "ok", has_tag |-> TRUE, tag |-> t, assets |-> a] : t \in LatestTags, a \in AssetLists}

CheckClicked ==
    \E current \in CurrentVersions, system \in Systems, resp \in Responses :
        check_for_updates(current, system, resp)


\* ------------------------------------------------------------ timer slots
\* per-channel fault choices for one chunk: at most one channel has a stage
\* that raises
FailChoices ==
    {f \in [Range(BoardChannels) -> {"none", "bandpass", "notch"}] :
        Cardinality({i \in Range(BoardChannels) : f[i] # "none"}) <= 1}

\* keep the last fft_update_interval entries of the per-session log of
\* appending ticks (TRUE: the tick ran update_fft / update_band_power)
LogSpectral(log, recomputed) ==
    PyTail(Append(log, recomputed), Min(Len(log) + 1, fft_update_interval))

ConcatRows(a, b) == [r \in DOMAIN a |-> a[r] \o b[r]]

\* an early return that still advances the throttle counter
ReturnEarlyCounting ==
    /\ h_pushed' = NothingPushed
    /\ fft_update_counter' = (fft_update_counter + 1) % fft_update_interval
    /\ UNCHANGED <<flagVars, board, board_pos, eeg_channels, eeg_outlet, start_eeg_stream_btn,
                   configVars, fileVars, windowVars, bufferVars, filterVars, smoothed_fft,
                   smoothed_band_power, bandVars, channelVars, widgetVars, histVars>>

\* update_stream_data returns before it touches anything: no board, no
\* session, or an empty pull; the tick hands nothing to the outlet
ReturnEarly ==
    /\ h_pushed' = NothingPushed
    /\ UNCHANGED <<flagVars, board, board_pos, eeg_channels, eeg_outlet, start_eeg_stream_btn,
                   configVars, fileVars, windowVars, bufferVars, filterVars, spectralVars,
                   channelVars, widgetVars, histVars>>

\* update_stream_data on a stream_timer timeout; n is the number of samples
\* board.get_board_data() returns, fail the stages that raise on this chunk
update_stream_data(n, fail) ==
    /\ stream_timer
    /\ IF ~ board \/ ~ streaming_active \/ n = 0
       THEN n = 0 /\ fail = NoFail /\ ReturnEarly
       ELSE
        /\ h_ticks < MaxTicks
        /\ fail # NoFail => (filter_coeffs_valid /\ h_faults < MaxFaults)
        /\ LET raw == RawChunk(eeg_channels, board_pos, n)
               p == process_signal(raw, fail)
               warming == stream_warmup_remaining > 0
               rem == stream_warmup_remaining - n
               chunk == IF warming
                        THEN [r \in DOMAIN p.out |-> PyTail(p.out[r], 0 - rem)]
                        ELSE p.out
               appended == ~ (warming /\ rem >= 0) /\ stream_buffer # NoBuffer
               buf == IF appended THEN RingAppend(stream_buffer, chunk) ELSE stream_buffer
               counted == appended
                          /\ ~ PlotsRaise(buf, active_channels, num_channels, stream_time_axis)
               recompute == counted /\ fft_update_counter + 1 >= fft_update_interval
               f == update_fft(buf, active_channels, num_channels, sampling_rate, smoothed_fft)
           IN /\ board_pos' = board_pos + n
              /\ h_pushed' = IF eeg_outlet
                             THEN [pushed |-> TRUE, returned |-> FALSE, chunk |-> raw,
                                   processed |-> p.out]
                             ELSE NoPush
              /\ bandpass_zi' = p.bz /\ notch_zi' = p.nz
              /\ stream_warmup_remaining' =
                     IF ~ warming THEN stream_warmup_remaining
                     ELSE IF rem >= 0 THEN rem ELSE 0
              /\ stream_buffer' = buf
              /\ raw_data' = IF appended
                             THEN [kind |-> "stream", rows |-> Rows(buf), cols |-> Cols(buf)]
                             ELSE raw_data
              /\ fft_update_counter' = IF recompute THEN 0
                                       ELSE IF counted THEN fft_update_counter + 1
                                       ELSE fft_update_counter
              /\ smoothed_fft' = IF recompute THEN f.sfft ELSE smoothed_fft
              /\ SetBand(IF recompute /\ ~ f.raised
                         THEN update_band_power(buf, active_channels, num_channels,
                                                sampling_rate, BandState)
                         ELSE Untouched(BandState))
              /\ h_ticks' = h_ticks + 1
              /\ h_faults' = IF fail # NoFail THEN h_faults + 1 ELSE h_faults
              /\ h_last_n' = n /\ h_last_fail' = fail
              /\ h_filtered' = ConcatRows(h_filtered, p.out)
              /\ h_appends' = IF appended THEN h_appends + 1 ELSE h_appends
              /\ h_admitted' = IF appended THEN ConcatRows(h_admitted, chunk) ELSE h_admitted
              /\ h_last_kept' = IF appended THEN Cols(chunk) ELSE h_last_kept
              /\ h_resized' = IF ~ appended THEN h_resized
                               ELSE IF h_resized = "resized"
                                       /\ Cols(chunk) = Cols(stream_buffer)
                                    THEN "refilled" ELSE "no"
              /\ h_spectral' = IF appended THEN LogSpectral(h_spectral, recompute)
                               ELSE h_spectral
        /\ UNCHANGED <<flagVars, board, eeg_channels, eeg_outlet, start_eeg_stream_btn, configVars, full_time_axis, boundsVars,
                       zoomVars,
                       windowVars, stream_time_axis, filter_coeffs_valid, bandpass_fs, notch_fs,
                       zi_template_fs, channelVars, widgetVars, h_session_fs>>

\* autoplay_step on an autoplay_timer timeout.  The position of the view in
\* the recording is not modelled: current_window stays where it is.
autoplay_step ==
    /\ autoplay_timer
    /\ IF \/ ~ file_loaded \/ ~ autoplay_active \/ active_channels = {}
          \/ \E ch \in active_channels : ch >= raw_data.rows
       THEN UNCHANGED vars
       ELSE
        /\ LET recompute == fft_update_counter + 1 >= AutoplayFftInterval
               r == FileSpectra(active_channels, num_channels, raw_data, CurrentBounds,
                                sampling_rate, smoothed_fft, BandState)
           IN /\ fft_update_counter' = IF recompute THEN 0 ELSE fft_update_counter + 1
              /\ smoothed_fft' = IF recompute THEN r.sfft ELSE smoothed_fft
              /\ SetBand(IF recompute THEN r.band ELSE Untouched(BandState))
        /\ UNCHANGED <<flagVars, boardVars, configVars, fileVars, windowVars, bufferVars,
                       filterVars, channelVars, widgetVars, histVars>>

\* ------------------------------------------------------- control handlers
\* position of the window-length slider (minimum 10) for a window length
SliderValue(w) == Max(w, 10)

\* on_window_size_spinbox_changed / on_horizontal_zoom_changed for the new
\* length v (tenths of a second); slider: the slider handler, which returns
\* early when the value equals the last one it processed
WindowLengthChanged(v, slider) ==
    /\ window_controls_enabled
    /\ window_size_sec' = v
    /\ IF mode = "stream" /\ streaming_active
       THEN /\ IF ResizeRaises(stream_buffer, num_channels)
               THEN UNCHANGED <<stream_buffer, stream_time_axis, raw_data, smoothed_fft>>
               ELSE LET size == NewBufSize(sampling_rate, v)
                    IN /\ stream_buffer' = ResizedBuffer(stream_buffer, num_channels, size)
                       /\ stream_time_axis' = size
                       /\ raw_data' = [kind |-> "stream", rows |-> num_channels,
                                       cols |-> size]
                       /\ smoothed_fft' = EmptyDict
            /\ h_resized' = IF ResizeRaises(stream_buffer, num_channels)
                             THEN h_resized ELSE "resized"
            /\ UNCHANGED <<autoplay_timer, num_channels, full_time_axis, windowVars>>
       ELSE /\ UNCHANGED <<stream_buffer, stream_time_axis, raw_data, smoothed_fft,
                           h_resized>>
            /\ IF ~ file_loaded
               THEN UNCHANGED <<autoplay_timer, num_channels, full_time_axis, windowVars>>
               ELSE /\ autoplay_timer' = (autoplay_timer /\ ~ autoplay_active)
                    /\ IF slider /\ v = last_horizontal_zoom_value
                       THEN UNCHANGED <<num_channels, full_time_axis, windowVars>>
                       ELSE LET rw == recalculate_windows(v, sampling_rate, raw_data)
                            IN /\ last_horizontal_zoom_value' = v
                               /\ window_size_samples' = rw.window_size_samples
                               /\ stride' = rw.stride
                               /\ IF rw.raised
                                  THEN UNCHANGED <<num_windows, num_channels,
                                                   full_time_axis, current_window>>
                                  ELSE /\ num_windows' = rw.num_windows
                                       /\ num_channels' = rw.num_channels
                                       /\ full_time_axis' = rw.full_time_axis
                                       /\ current_window' =
                                              ClampWindow(current_window, rw.num_windows)
    /\ UNCHANGED <<mode, file_loaded, streaming_active, stream_timer, autoplay_active,
                   boardVars, sampling_rate, magnitude_scale, magnitude_combo, updateVars, boundsVars,
                   zoomVars,
                   stream_warmup_remaining, filterVars, fft_update_counter,
                   smoothed_band_power, bandVars, channelVars, widgetVars, tickHist, h_session_fs>>

on_window_size_spinbox_changed(v) ==
    /\ v # window_size_sec
    /\ WindowLengthChanged(v, FALSE)

on_horizontal_zoom_changed(v) ==
    /\ v # SliderValue(window_size_sec)
    /\ WindowLengthChanged(v, TRUE)

\* on_sampling_rate_changed(value): prepare_data(), then
\* sync_navigation_controls() unless prepare_data raised (stride 0, or the
\* bounds of an empty recording)
on_sampling_rate_changed(v) ==
    /\ sampling_rate_spinbox_enabled /\ v # sampling_rate
    /\ IF ~ file_loaded
       THEN UNCHANGED vars
       ELSE LET rw == recalculate_windows(window_size_sec, v, raw_data)
            IN /\ sampling_rate' = v
               /\ window_size_samples' = rw.window_size_samples
               /\ stride' = rw.stride
               /\ IF rw.raised
                  THEN /\ h_bounds_passes' = 0
                       /\ UNCHANGED <<num_windows, num_channels, full_time_axis,
                                      current_window, channel_iqr_bounds,
                                      channel_minmax_bounds>>
                  ELSE /\ num_windows' = rw.num_windows
                       /\ num_channels' = rw.num_channels
                       /\ full_time_axis' = rw.full_time_axis
                       /\ h_bounds_passes' = 1
                       /\ \E nanq \in EmptyQuantileIsNaN :
                            LET b == prepare_bounds(raw_data, rw.num_channels, nanq) IN
                               /\ channel_iqr_bounds' = b.iqr
                               /\ channel_minmax_bounds' = b.minmax
                       /\ current_window' = IF raw_data.cols = 0 THEN current_window
                                             ELSE ClampWindow(current_window, rw.num_windows)
               /\ UNCHANGED <<flagVars, boardVars, window_size_sec, magnitude_scale,
                              magnitude_combo, updateVars, raw_data, last_horizontal_zoom_value,
                              bufferVars, filterVars, spectralVars, channelVars, widgetVars,
                              histVars, vertical_bounds_mode, h_fit_bounds, zoomVars>>

\* on_magnitude_changed(text): an entry of the combo box inside signal_group
on_magnitude_changed(m) ==
    /\ mode = "stream" /\ m # magnitude_combo
    /\ magnitude_scale' = m /\ magnitude_combo' = m
    /\ UNCHANGED updateVars
    /\ UNCHANGED <<flagVars, boardVars, num_channels, sampling_rate, window_size_sec,
                   fileVars, windowVars, bufferVars, filterVars, spectralVars, channelVars,
                   widgetVars, histVars>>

\* state of the select-all box after toggle_channel
SelectAllState(active, nch) ==
    IF Cardinality(active) = nch THEN "checked"
    ELSE IF active = {} THEN "unchecked" ELSE "partial"

\* the user flips channel checkbox i: toggle_channel(i, state)
toggle_channel(i) ==
    /\ channel_group_enabled /\ i \in DOMAIN channel_checkboxes
    /\ channel_checkboxes' = [channel_checkboxes EXCEPT ![i] = ~ @]
    /\ IF ~ file_loaded /\ ~ streaming_active
       THEN UNCHANGED <<active_channels, select_all_checkbox, smoothed_fft,
                        smoothed_band_power, bandVars>>
       ELSE LET act == IF ~ channel_checkboxes[i] THEN active_channels \cup {i}
                       ELSE active_channels \ {i}
                r == IF file_loaded /\ ~ streaming_active
                     THEN FileRefresh(act, num_channels, raw_data, CurrentBounds,
                                      full_time_axis, sampling_rate, smoothed_fft,
                                      BandState)
                     ELSE SameSpectra
            IN /\ active_channels' = act
               /\ select_all_checkbox' = SelectAllState(act, num_channels)
               /\ smoothed_fft' = r.sfft /\ SetBand(r.band)
    /\ UNCHANGED <<flagVars, boardVars, configVars, fileVars, windowVars, bufferVars,
                   filterVars, fft_update_counter, widgetVars, histVars>>

\* the user clicks the select-all box: toggle_all_channels(state)
toggle_all_channels ==
    /\ channel_group_enabled
    /\ LET checked == select_all_checkbox # "checked"
           act == AllChannels(checked, num_channels)
           r == IF file_loaded /\ ~ streaming_active
                THEN FileRefresh(act, num_channels, raw_data, CurrentBounds,
                                 full_time_axis, sampling_rate, smoothed_fft,
                                 BandState)
                ELSE SameSpectra
       IN /\ select_all_checkbox' = IF checked THEN "checked" ELSE "unchecked"
          /\ channel_checkboxes' = [i \in DOMAIN channel_checkboxes |-> checked]
          /\ active_channels' = act
          /\ smoothed_fft' = r.sfft /\ SetBand(r.band)
    /\ UNCHANGED <<flagVars, boardVars, configVars, fileVars, windowVars, bufferVars,
                   filterVars, fft_update_counter, widgetVars, histVars>>

\* load_file with a recording chosen in the dialog.  prepare_data raises
\* inside recalculate_windows (stride 0) or, after it, on np.quantile / np.min
\* of an empty recording; the except clause of load_file then leaves what was
\* assigned so far.  horizontal_zoom_slider.setMaximum(int(duration * 10))
\* moves a slider standing above the new maximum m, and the slider then runs
\* on_horizontal_zoom_changed(m) inside load_file: the window length becomes
\* m, and the windows are recalculated if m differs from the last value the
\* handler processed and a plot exists (stacked_plot_item is created by
\* setup_stacked_mode, on the two paths that also enable the window-length
\* controls).  The recordings offered are empty or at least one second long,
\* so the slider's minimum of 10 stays what it is and the spinbox maximum
\* clamps nothing the slider did not.
load_file(f) ==
    /\ mode = "file"
    /\ f.cols = 0 \/ f.cols >= (IF f.sfreq > 0 THEN f.sfreq ELSE sampling_rate)
    /\ LET fs == IF f.sfreq > 0 THEN f.sfreq ELSE sampling_rate
           raw == [kind |-> "file", rows |-> f.rows, cols |-> f.cols]
           rw0 == recalculate_windows(window_size_sec, fs, raw)
           m == (10 * f.cols) \div fs
           moved == SliderValue(window_size_sec) > m
           again == moved /\ m # last_horizontal_zoom_value /\ window_controls_enabled
           rw1 == recalculate_windows(m, fs, raw)
           rw == IF again /\ ~ rw1.raised THEN rw1 ELSE rw0
           wss == IF again THEN rw1.window_size_samples ELSE rw0.window_size_samples
           st == IF again THEN rw1.stride ELSE rw0.stride
           wb == get_window_bounds(0, st, wss, rw.full_time_axis)
           r == FileRefresh({0}, rw.num_channels, raw, wb, rw.full_time_axis, fs,
                            EmptyDict, [sbp |-> {}, sbv |-> EmptyDict, y_max |-> 0])
       IN /\ raw_data' = raw /\ sampling_rate' = fs /\ file_loaded' = TRUE
          /\ IF rw0.raised \/ f.cols = 0
             THEN /\ window_size_samples' = rw0.window_size_samples
                  /\ stride' = rw0.stride
                  /\ smoothed_fft' = EmptyDict /\ ResetBand
                  /\ IF rw0.raised
                     THEN /\ h_bounds_passes' = 0
                          /\ UNCHANGED <<num_channels, full_time_axis, num_windows,
                                         channel_iqr_bounds, channel_minmax_bounds>>
                     ELSE /\ num_windows' = rw0.num_windows
                          /\ num_channels' = rw0.num_channels
                          /\ full_time_axis' = rw0.full_time_axis
                          /\ h_bounds_passes' = 1
                          /\ \E nanq \in EmptyQuantileIsNaN :
                               LET b == prepare_bounds(raw, rw0.num_channels, nanq) IN
                                  /\ channel_iqr_bounds' = b.iqr
                                  /\ channel_minmax_bounds' = b.minmax
                  /\ UNCHANGED <<autoplay_timer, window_size_sec, current_window,
                                 last_horizontal_zoom_value, channelVars,
                                 sampling_rate_spinbox_enabled, window_controls_enabled,
                                 channel_group_enabled, nav_widget_enabled>>
             ELSE /\ window_size_sec' = IF moved THEN m ELSE window_size_sec
                  /\ window_size_samples' = wss /\ stride' = st
                  /\ num_windows' = rw.num_windows /\ num_channels' = rw.num_channels
                  /\ full_time_axis' = rw.full_time_axis
                  /\ h_bounds_passes' = 1
                  /\ LET b == prepare_bounds(raw, rw0.num_channels, FALSE) IN
                        /\ channel_iqr_bounds' = b.iqr
                        /\ channel_minmax_bounds' = b.minmax
                  /\ current_window' = 0
                  /\ last_horizontal_zoom_value' = IF moved THEN m ELSE window_size_sec
                  \* slider.setValue(0) runs navigate_to_window(0) when the
                  \* navigation slider was elsewhere
                  /\ autoplay_timer' = (/\ autoplay_timer /\ current_window = 0
                                        /\ ~ (moved /\ autoplay_active))
                  /\ channel_checkboxes' = [i \in Range(f.rows) |-> i = 0]
                  /\ active_channels' = {0}
                  /\ select_all_checkbox' = SelectAllState({0}, rw.num_channels)
                  /\ smoothed_fft' = r.sfft /\ SetBand(r.band)
                  /\ sampling_rate_spinbox_enabled' = TRUE /\ window_controls_enabled' = TRUE
                  /\ channel_group_enabled' = TRUE /\ nav_widget_enabled' = TRUE
    /\ UNCHANGED <<mode, streaming_active, stream_timer, autoplay_active, boardVars,
                   magnitude_scale, magnitude_combo, updateVars, bufferVars, filterVars,
                   fft_update_counter, mode_radio_enabled, histVars,
                   vertical_bounds_mode, h_fit_bounds, zoomVars>>

\* the user moves the navigation slider to window i: on_slider_changed ->
\* navigate_to_window(i).  full_time_axis[start_sample] raises for a start
\* past the axis; setXRange runs on_stacked_range_changed, which reads the
\* window back from the view unless no channel is active (a stride of 0
\* raises inside that slot and leaves current_window as assigned)
navigate_to_window(i) ==
    /\ nav_widget_enabled /\ mode = "file"
    /\ i \in 0 .. (num_windows - 1) /\ i # current_window
    /\ autoplay_timer' = (autoplay_timer /\ ~ autoplay_active)
    /\ LET wb == get_window_bounds(i, stride, window_size_samples, full_time_axis)
           raised == wb.start >= full_time_axis
           cw == IF raised \/ ~ file_loaded \/ active_channels = {} \/ stride = 0 THEN i
                 ELSE ViewWindow(wb, full_time_axis, stride, num_windows)
           r == IF raised \/ ~ file_loaded \/ streaming_active
                THEN SameSpectra
                ELSE FileRefresh(active_channels, num_channels, raw_data,
                                 get_window_bounds(cw, stride, window_size_samples,
                                                   full_time_axis),
                                 full_time_axis, sampling_rate, smoothed_fft,
                                 BandState)
       IN /\ current_window' = cw
          /\ smoothed_fft' = r.sfft /\ SetBand(r.band)
    /\ UNCHANGED <<mode, file_loaded, streaming_active, stream_timer, autoplay_active,
                   boardVars, configVars, fileVars, window_size_samples, stride,
                   num_windows, last_horizontal_zoom_value, bufferVars, filterVars,
                   fft_update_counter, channelVars, widgetVars, histVars>>

\* the user pans the plot so that the centre of the view is at t (tenths of
\* a second): on_stacked_range_changed -> update_window_controls_from_view
on_stacked_range_changed(t) ==
    /\ window_controls_enabled
    /\ IF mode = "stream" \/ ~ file_loaded \/ active_channels = {}
       THEN UNCHANGED vars
       ELSE LET g == get_window_from_time(t, sampling_rate, stride, num_windows)
            IN /\ current_window' = IF g.raised THEN current_window ELSE g.idx
               /\ UNCHANGED <<flagVars, boardVars, configVars, fileVars,
                              window_size_samples, stride, num_windows,
                              last_horizontal_zoom_value, bufferVars, filterVars,
                              spectralVars, channelVars, widgetVars, histVars>>

\* the redraw of apply_vertical_zoom in stacked mode: during a session
\* update_streaming_plots smooths the buffer row of every active channel
\* (nothing is drawn when it raises); a file is redrawn from raw_data
Replotted ==
    IF mode = "stream" /\ streaming_active
    THEN IF stream_buffer = NoBuffer
            \/ PlotsRaise(stream_buffer, active_channels, num_channels, stream_time_axis)
         THEN h_plotted
         ELSE [ch \in {c \in active_channels : c < num_channels} |->
                 [data |-> stream_buffer[ch],
                  shown |-> smooth_display_data(stream_buffer[ch], sampling_rate)]]
    ELSE h_plotted

\* the vertical zoom slider moved to value (percent):
\* on_vertical_zoom_slider_changed -> apply_vertical_zoom; the slider is
\* enabled together with the window-length controls
on_vertical_zoom_slider_changed(value) ==
    /\ window_controls_enabled /\ value # vertical_zoom_slider
    /\ vertical_zoom_slider' = value
    /\ IF active_channels = {}
       THEN UNCHANGED <<channel_amplitude_scale, h_plotted>>
       ELSE channel_amplitude_scale' = value /\ h_plotted' = Replotted
    /\ UNCHANGED <<flagVars, boardVars, configVars, raw_data, full_time_axis, boundsVars,
                   windowVars, bufferVars, filterVars, spectralVars, channelVars,
                   widgetVars, histVars>>

\* the Auto-Fit button: auto_fit_plot.  The vertical zoom slider is set to
\* 100 and, if it stood elsewhere, runs apply_vertical_zoom(100);
\* full_time_axis[start_sample] raises for a start past the axis (or for no
\* axis); unpacking the bounds raises when get_bounds_for_channels raised or
\* returned None; otherwise the amplitude scale is reset, setXRange snaps
\* the view to the current window and on_stacked_range_changed reads the
\* window back from the view (in file mode, unless the stride is 0)
auto_fit_plot ==
    /\ file_loaded /\ active_channels # {}
    /\ LET wb == CurrentBounds
           indexed == wb.start >= 0 /\ wb.start < full_time_axis
           b == get_bounds_for_channels(active_channels)
           fitted == indexed /\ b.ret = "pair"
       IN /\ h_fit_bounds' = IF indexed THEN b ELSE h_fit_bounds
          /\ vertical_zoom_slider' = DefaultZoom
          /\ channel_amplitude_scale' =
                 IF fitted \/ vertical_zoom_slider # DefaultZoom THEN DefaultZoom
                 ELSE channel_amplitude_scale
          /\ h_plotted' = IF vertical_zoom_slider # DefaultZoom THEN Replotted ELSE h_plotted
          /\ current_window' =
                 IF fitted /\ mode = "file" /\ stride # 0
                 THEN ViewWindow(wb, full_time_axis, stride, num_windows)
                 ELSE current_window
    /\ UNCHANGED <<flagVars, boardVars, configVars, raw_data, full_time_axis,
                   channel_iqr_bounds, channel_minmax_bounds, vertical_bounds_mode,
                   h_bounds_passes, window_size_samples, stride, num_windows,
                   last_horizontal_zoom_value, bufferVars, filterVars, spectralVars,
                   channelVars, widgetVars, histVars>>

\* the bounds dropdown: on_bounds_mode_changed(index), index 0 for "iqr" and
\* 1 for "minmax"; the combo box is enabled together with the window-length
\* controls and emits only when its index changes
on_bounds_mode_changed(index) ==
    /\ window_controls_enabled
    /\ index # (IF vertical_bounds_mode = "iqr" THEN 0 ELSE 1)
    /\ vertical_bounds_mode' = IF ~ file_loaded THEN vertical_bounds_mode
                               ELSE IF index = 0 THEN "iqr" ELSE "minmax"
    /\ UNCHANGED <<flagVars, boardVars, configVars, raw_data, full_time_axis,
                   channel_iqr_bounds, channel_minmax_bounds, h_bounds_passes,
                   h_fit_bounds, zoomVars, windowVars, bufferVars, filterVars,
                   spectralVars, channelVars, widgetVars, histVars>>

\* ----------------------------------------------------------- specification
Next ==
    \/ on_mode_changed
    \/ \E f \in FileChoices : load_file(f)
    \/ on_spacebar
    \/ StartVizClicked
    \/ \E rate \in BoardRates : auto_connect_headset(rate)
    \/ disconnect_headset
    \/ \E n \in ChunkSizes, fail \in FailChoices : update_stream_data(n, fail)
    \/ autoplay_step
    \/ \E v \in WindowChoices : on_window_size_spinbox_changed(v)
    \/ \E v \in SliderChoices : on_horizontal_zoom_changed(v)
    \/ \E v \in RateChoices : on_sampling_rate_changed(v)
    \/ \E m \in MagnitudeChoices : on_magnitude_changed(m)
    \/ \E i \in Range(BoardChannels) : toggle_channel(i)
    \/ toggle_all_channels
    \/ \E i \in Range(MaxWindowIndex + 1) : navigate_to_window(i)
    \/ \E t \in ViewCentres : on_stacked_range_changed(t)
    \/ auto_fit_plot
    \/ \E index \in {0, 1} : on_bounds_mode_changed(index)
    \/ \E value \in ZoomChoices : on_vertical_zoom_slider_changed(value)
    \/ \E ok \in BOOLEAN : start_eeg_stream(ok)
    \/ stop_eeg_stream
    \/ CheckClicked

Spec == Init /\ [][Next]_vars

\* The ring buffer, the warmup counter and the session flags are written by
\* the handlers below only, and the sizes they use come from sampling_rate,
\* window_size_sec and num_channels, which these handlers and load_file set.
NextStream ==
    \/ on_mode_changed
    \/ \E f \in FileChoices : load_file(f)
    \/ on_spacebar
    \/ StartVizClicked
    \/ \E rate \in BoardRates : auto_connect_headset(rate)
    \/ disconnect_headset
    \/ \E n \in ChunkSizes : update_stream_data(n, NoFail)
    \/ \E v \in WindowChoices : on_window_size_spinbox_changed(v)
    \/ \E v \in SliderChoices : on_horizontal_zoom_changed(v)

SpecStream == Init /\ [][NextStream]_vars

\* The per-channel filter states and the display gain are written by the
\* handlers below only; fail ranges over the stages made to raise.
NextFilter ==
    \/ on_mode_changed
    \/ on_spacebar
    \/ StartVizClicked
    \/ \E rate \in BoardRates : auto_connect_headset(rate)
    \/ disconnect_headset
    \/ \E n \in ChunkSizes, fail \in FailChoices : update_stream_data(n, fail)
    \/ \E m \in MagnitudeChoices : on_magnitude_changed(m)

SpecFilter == Init /\ [][NextFilter]_vars

\* The two timers and the spectral counter are written by the handlers below
\* only.
NextTimers ==
    \/ on_mode_changed
    \/ \E f \in FileChoices : load_file(f)
    \/ on_spacebar
    \/ StartVizClicked
    \/ \E rate \in BoardRates : auto_connect_headset(rate)
    \/ disconnect_headset
    \/ \E n \in ChunkSizes : update_stream_data(n, NoFail)
    \/ autoplay_step

SpecTimers == Init /\ [][NextTimers]_vars

\* One board, sessions on it, ticks without faults and window-length changes
\* during and between the sessions.
NextSession ==
    \/ on_mode_changed
    \/ on_spacebar
    \/ StartVizClicked
    \/ \E rate \in BoardRates : auto_connect_headset(rate)
    \/ disconnect_headset
    \/ \E n \in SessionChunks \cup {0} : update_stream_data(n, NoFail)
    \/ \E v \in WindowChoices : on_window_size_spinbox_changed(v)
    \/ \E v \in SliderChoices : on_horizontal_zoom_changed(v)

SpecSession == Init /\ [][NextSession]_vars

\* File mode only: recordings of several lengths, among them an empty one and
\* ones shorter than the window, are loaded, segmented under several window
\* lengths and sampling rates, navigated and panned.
NextWindows ==
    \/ \E f \in WindowFiles : load_file(f)
    \/ \E v \in WindowLengths : on_window_size_spinbox_changed(v)
    \/ \E v \in SliderChoices : on_horizontal_zoom_changed(v)
    \/ \E v \in WindowRates : on_sampling_rate_changed(v)
    \/ \E i \in Range(MaxWindowIndex + 1) : navigate_to_window(i)
    \/ \E t \in ViewCentres : on_stacked_range_changed(t)
    \/ \E i \in Range(BoardChannels) : toggle_channel(i)

SpecWindows == Init /\ [][NextWindows]_vars

\* File mode only: the ten-second recording is loaded, segmented under two
\* window lengths and two sampling rates, navigated, panned and played.
NextRecording ==
    \/ \E f \in RecordingFiles : load_file(f)
    \/ \E v \in RecordingLengths : on_window_size_spinbox_changed(v)
    \/ \E v \in RecordingLengths : on_horizontal_zoom_changed(v)
    \/ \E v \in RecordingRates : on_sampling_rate_changed(v)
    \/ \E i \in Range(MaxWindowIndex + 1) : navigate_to_window(i)
    \/ \E t \in ViewCentres : on_stacked_range_changed(t)
    \/ \E i \in Range(BoardChannels) : toggle_channel(i)
    \/ on_spacebar
    \/ autoplay_step

SpecRecording == Init /\ [][NextRecording]_vars

\* The board reports one of three rates at connect; the coefficients are
\* derived for it, or the derivation fails, and the ticks of the sessions
\* that follow go through process_signal.
NextCoeffs ==
    \/ on_mode_changed
    \/ StartVizClicked
    \/ \E rate \in CoeffRates : auto_connect_headset(rate)
    \/ disconnect_headset
    \/ \E n \in CoeffChunks : update_stream_data(n, NoFail)
    \/ \E m \in MagnitudeChoices : on_magnitude_changed(m)

SpecCoeffs == Init /\ [][NextCoeffs]_vars

\* During a session the vertical zoom slider redraws the smoothed buffer
\* rows; the window-length spinbox resizes the buffer.
NextSmooth ==
    \/ on_mode_changed
    \/ StartVizClicked
    \/ \E rate \in BoardRates : auto_connect_headset(rate)
    \/ \E n \in SessionChunks : update_stream_data(n, NoFail)
    \/ \E v \in WindowChoices : on_window_size_spinbox_changed(v)
    \/ \E value \in ZoomChoices : on_vertical_zoom_slider_changed(value)

SpecSmooth == Init /\ [][NextSmooth]_vars

\* The vertical bounds are written by load_file and on_sampling_rate_changed;
\* the Auto-Fit button reads the bounds of the active channels under either
\* bounds mode.
NextFit ==
    \/ \E f \in BoundsFiles : load_file(f)
    \/ \E v \in WindowRates : on_sampling_rate_changed(v)
    \/ \E i \in Range(MaxWindowIndex + 1) : navigate_to_window(i)
    \/ \E i \in Range(BoardChannels) : toggle_channel(i)
    \/ \E index \in {0, 1} : on_bounds_mode_changed(index)
    \/ auto_fit_plot

SpecFit == Init /\ [][NextFit]_vars

\* ------------------------------------------------------------- properties
\* the last k cells of x, for 0 <= k <= Len(x)
LastCells(x, k) == SubSeq(x, Len(x) - k + 1, Len(x))

\* the cells of a row that do not hold the sentinel
DataCells(row) == Cardinality({j \in 1 .. Len(row) : row[j] # NaN})

\* C1: a tick that appends a chunk of n columns to a buffer of capacity c
\* leaves the capacity unchanged; for n >= c the buffer is the chunk's last c
\* columns; otherwise cell j of the new buffer is cell j + n of the old one
\* for the first c - n cells and the chunk fills the last n cells.
C1_RingAppendContract ==
    [][h_appends' # h_appends =>
         LET c == Cols(stream_buffer)
             n == h_last_kept'
         IN /\ DOMAIN stream_buffer' = DOMAIN stream_buffer
            /\ \A r \in DOMAIN stream_buffer :
                 LET chunk == LastCells(h_admitted'[r], n)
                     new == stream_buffer'[r]
                 IN /\ Len(new) = c
                    /\ IF n >= c
                       THEN new = LastCells(chunk, c)
                       ELSE /\ SubSeq(new, 1, c - n) = SubSeq(stream_buffer[r], n + 1, c)
                            /\ SubSeq(new, c - n + 1, c) = chunk]_vars

\* C1 witness: a second append whose chunk is at least as long as the buffer
\* (the first one, into the buffer allocated at connect, was shorter)
C1_Witness ==
    /\ streaming_active /\ stream_buffer # NoBuffer
    /\ h_appends >= 2 /\ h_last_kept >= Cols(stream_buffer)

\* C2: while a session is streaming, every buffer row is a run of sentinels
\* followed by the most recently admitted processed samples of that row.
C2_SentinelPrefixThenData ==
    (streaming_active /\ stream_buffer # NoBuffer) =>
        \A r \in DOMAIN stream_buffer :
            LET row == stream_buffer[r]
                k == DataCells(row)
            IN /\ k <= Len(h_admitted[r])
               /\ row = Fill(Len(row) - k, NaN) \o LastCells(h_admitted[r], k)

\* C3: a window-length change during a session gives the buffer the capacity
\* max(10, int(sampling_rate * seconds)), keeps the newest min(old, new)
\* cells of every row right-aligned and fills the cells before them with the
\* sentinel.
C3_ResizeKeepsNewest ==
    [][(/\ streaming_active /\ mode = "stream"
        /\ window_size_sec' # window_size_sec
        /\ stream_buffer # NoBuffer /\ Rows(stream_buffer) = num_channels) =>
         LET old == Cols(stream_buffer)
             new == Max(10, (sampling_rate * window_size_sec') \div 10)
             k == Min(old, new)
         IN /\ DOMAIN stream_buffer' = DOMAIN stream_buffer
            /\ \A r \in DOMAIN stream_buffer :
                 /\ Len(stream_buffer'[r]) = new
                 /\ LastCells(stream_buffer'[r], k) = LastCells(stream_buffer[r], k)
                 /\ SubSeq(stream_buffer'[r], 1, new - k) = Fill(new - k, NaN)]_vars

\* C3 witness: a buffer holding admitted samples was shrunk to the floor of
\* 10 cells by a request for fewer
C3_Witness ==
    /\ streaming_active /\ stream_buffer # NoBuffer
    /\ (sampling_rate * window_size_sec) \div 10 < MinBufSize
    /\ Cols(stream_buffer) = MinBufSize
    /\ h_appends >= 1
    /\ stream_buffer[0] = LastCells(h_admitted[0], MinBufSize)

\* C4: the samples admitted to the buffer in a session are the filtered
\* stream of the session without its first int(0.5 * sampling_rate) samples,
\* the rate being the one in force when the session started.
C4_WarmupDiscard ==
    h_session_fs # Unset =>
        \A r \in DOMAIN h_filtered :
            h_admitted[r] = PyFrom(h_filtered[r], h_session_fs \div 2)

\* C4 witness: the chunk that ended the warmup was admitted in part
C4_Witness ==
    /\ streaming_active /\ h_appends >= 1
    /\ h_last_kept > 0 /\ h_last_kept < h_last_n
    /\ stream_warmup_remaining = 0

\* C7 as stated: the step that ends a session empties the filter states and
\* the EMA caches and fills the buffer with the sentinel.
C7_StopClears ==
    [][(streaming_active /\ ~ streaming_active') =>
         /\ bandpass_zi' = EmptyDict /\ notch_zi' = EmptyDict
         /\ smoothed_fft' = EmptyDict /\ smoothed_band_power' = {}
         /\ stream_buffer # NoBuffer =>
                stream_buffer' = Full(Rows(stream_buffer), Cols(stream_buffer), NaN)]_vars

\* C7 amended: the step that ends a session clears the streaming flag, stops
\* the stream timer and leaves the filter states, the EMA caches and the
\* buffer as they are; the step that starts a session empties the filter
\* states and the EMA caches and fills an allocated buffer with the sentinel.
C7_StartClears ==
    [][/\ (streaming_active /\ ~ streaming_active') =>
            /\ ~ stream_timer'
            /\ UNCHANGED <<bandpass_zi, notch_zi, smoothed_fft, smoothed_band_power,
                           stream_buffer>>
       /\ (~ streaming_active /\ streaming_active') =>
            /\ stream_timer'
            /\ bandpass_zi' = EmptyDict /\ notch_zi' = EmptyDict
            /\ smoothed_fft' = EmptyDict /\ smoothed_band_power' = {}
            /\ stream_buffer # NoBuffer =>
                   stream_buffer' = Full(Rows(stream_buffer), Cols(stream_buffer), NaN)
            /\ stream_buffer = NoBuffer => stream_buffer' = NoBuffer]_vars

\* C7 witness: a stopped session whose filter states and buffered samples
\* are still in place
C7_Witness ==
    /\ ~ streaming_active /\ ~ stream_timer /\ h_appends >= 1
    /\ DOMAIN bandpass_zi = Range(BoardChannels) /\ DOMAIN notch_zi = Range(BoardChannels)
    /\ stream_buffer # NoBuffer
    /\ stream_buffer[0][Cols(stream_buffer)] = h_admitted[0][Len(h_admitted[0])]

\* C5: a filter state entry appears only when a chunk of its channel is
\* processed, seeded from the first sample of that chunk; the state a chunk
\* is filtered from is the state the previous chunk returned (the output of
\* the chunk and the state it leaves are those of the two stages run from
\* that state), and between chunks the maps do not change; an entry is
\* removed only by the start of a session or a recomputation of the
\* coefficients (at connect), and after either both maps are empty.
C5_FilterStateLifecycle ==
    [][LET start == ~ streaming_active /\ streaming_active'
           recomputed == ~ board /\ board' /\ filter_coeffs_valid'
           chunkStep == h_ticks' # h_ticks
           removed == \/ ~ (DOMAIN bandpass_zi \subseteq DOMAIN bandpass_zi')
                      \/ ~ (DOMAIN notch_zi \subseteq DOMAIN notch_zi')
       IN /\ removed => (start \/ recomputed)
          /\ (start \/ recomputed) => (bandpass_zi' = EmptyDict /\ notch_zi' = EmptyDict)
          /\ ~ (chunkStep \/ start \/ recomputed) => UNCHANGED <<bandpass_zi, notch_zi>>
          /\ (chunkStep /\ filter_coeffs_valid) =>
               \A x \in {RawChunk(eeg_channels, board_pos, h_last_n')} :
               \A r \in DOMAIN x :
                 h_last_fail'[r] = "none" =>
                   \A bp \in {lfilter(butter(bandpass_fs), x[r],
                                      IF r \in DOMAIN bandpass_zi THEN bandpass_zi[r]
                                      ELSE ScaleVec(lfilter_zi(butter(zi_template_fs)),
                                                    x[r][1]))} :
                   \A nt \in {lfilter(iirnotch(notch_fs), bp.y,
                                      IF r \in DOMAIN notch_zi THEN notch_zi[r]
                                      ELSE ScaleVec(lfilter_zi(iirnotch(zi_template_fs)),
                                                    x[r][1]))} :
                      /\ r \in DOMAIN bandpass_zi' /\ r \in DOMAIN notch_zi'
                      /\ bandpass_zi'[r] = bp.zf /\ notch_zi'[r] = nt.zf
                      /\ LastCells(h_filtered'[r], h_last_n') =
                             [j \in 1 .. h_last_n' |->
                                (nt.y[j] * magnitude_scale) \div 100]]_vars

\* C5 witness: the second chunk of a session was filtered from the states
\* the first one left
C5_Witness ==
    /\ streaming_active /\ filter_coeffs_valid
    /\ h_last_n > 0 /\ Len(h_filtered[0]) > h_last_n
    /\ h_last_fail = NoFail
    /\ DOMAIN bandpass_zi = Range(BoardChannels) /\ DOMAIN notch_zi = Range(BoardChannels)

\* C6: the autoplay timer and the stream timer are never both running.
C6_OneTimerRunning == ~ (autoplay_timer /\ stream_timer)

\* C8: of any three consecutive appending ticks of a session at most one
\* recomputes the spectra.
C8_SpectralThrottle ==
    Cardinality({j \in 1 .. Len(h_spectral) : h_spectral[j]}) <= 1

\* C9: when a stage raises for a channel on a chunk, that channel's output
\* for the chunk is the raw chunk times magnitude_scale / 100, and every
\* other channel's output and filter states are what they are without the
\* failure.
C9_FilterFailureIsolated ==
    [][(h_ticks' # h_ticks /\ h_last_fail' # NoFail) =>
         \A x \in {RawChunk(eeg_channels, board_pos, h_last_n')} :
         \A clean \in {process_signal(x, NoFail)} :
         \A r \in DOMAIN x :
           IF h_last_fail'[r] # "none"
           THEN LastCells(h_filtered'[r], h_last_n') =
                    [j \in 1 .. h_last_n' |-> (x[r][j] * magnitude_scale) \div 100]
           ELSE /\ LastCells(h_filtered'[r], h_last_n') = clean.out[r]
                /\ bandpass_zi'[r] = clean.bz[r]
                /\ notch_zi'[r] = clean.nz[r]]_vars

\* C10: whenever the coefficients are marked valid they were derived for the
\* current sampling_rate.
C10_CoefficientsFollowRate ==
    filter_coeffs_valid => (bandpass_fs = sampling_rate /\ notch_fs = sampling_rate)

\* C11: while a streaming session is active the buffer's capacity is the
\* rounded product of the sampling rate and the window length, and never
\* below the floor of MinBufSize samples
C11_CapacityFollowsWindow ==
    (streaming_active /\ stream_buffer # NoBuffer) =>
        Cols(stream_buffer)
            = Max(MinBufSize, (2 * sampling_rate * window_size_sec + 10) \div 20)

\* C12: when the buffer was resized to capacity c and the next chunk appended
\* has exactly c columns, the buffer after the append is that chunk, sample
\* for sample, and holds no sentinel, whatever it held before.
C12_ResizeThenRefill ==
    [][(/\ h_appends' # h_appends /\ h_resized = "resized"
        /\ h_last_kept' = Cols(stream_buffer)) =>
         /\ DOMAIN stream_buffer' = DOMAIN stream_buffer
         /\ \A r \in DOMAIN stream_buffer' :
              /\ stream_buffer'[r] = LastCells(h_admitted'[r], h_last_kept')
              /\ DataCells(stream_buffer'[r]) = Cols(stream_buffer)]_vars

\* C12 witness: a buffer that held admitted samples was resized and then
\* refilled by a chunk of its new capacity
C12_Witness ==
    /\ streaming_active /\ h_resized = "refilled"
    /\ h_appends >= 2 /\ h_last_kept = Cols(stream_buffer)
    /\ Len(h_admitted[0]) > h_last_kept

\* C13: filter continuity.  When a session's first chunk was filtered from
\* fresh state and the second from the state the first one left, the
\* session's output is the output of one pass from fresh state over the two
\* chunks joined, whatever the lengths of the two chunks.
C13_FilterContinuity ==
    [][(/\ h_ticks' # h_ticks /\ filter_coeffs_valid
        /\ h_last_n > 0 /\ Len(h_filtered[0]) = h_last_n
        /\ DOMAIN bandpass_zi = Range(eeg_channels)
        /\ DOMAIN notch_zi = Range(eeg_channels)) =>
         \A x \in {RawChunk(eeg_channels, board_pos - h_last_n, h_last_n + h_last_n')} :
         \A r \in DOMAIN x :
           \A bp \in {lfilter(butter(bandpass_fs), x[r],
                              ScaleVec(lfilter_zi(butter(zi_template_fs)), x[r][1]))} :
           \A nt \in {lfilter(iirnotch(notch_fs), bp.y,
                              ScaleVec(lfilter_zi(iirnotch(zi_template_fs)), x[r][1]))} :
              h_filtered'[r] = [j \in 1 .. Len(x[r]) |->
                                  (nt.y[j] * magnitude_scale) \div 100]]_vars

\* C13 witness: a session whose output came from two chunks of different
\* lengths, the second filtered from the state left by the first
C13_Witness ==
    /\ streaming_active /\ filter_coeffs_valid /\ h_ticks = 2
    /\ h_last_n > 0 /\ Len(h_filtered[0]) > 2 * h_last_n
    /\ board_pos = Len(h_filtered[0])
    /\ DOMAIN bandpass_zi = Range(eeg_channels) /\ DOMAIN notch_zi = Range(eeg_channels)

\* a recording is shown in file mode
FileShown == mode = "file" /\ file_loaded /\ raw_data.kind = "file"

\* C15: for the recording length L, the window length W and the stride S
\* that recalculate_windows produced, the quotient (L - W) / S exists and
\* num_windows = max(1, floor((L - W) / S) + 1).
C15_WindowCount ==
    FileShown =>
        /\ stride # 0
        /\ num_windows
             = Max(1, ((raw_data.cols - window_size_samples) \div stride) + 1)

\* round(a / b) for integers a >= 0 and b > 0, halves to the even neighbour
\* as Python's round does
RoundQuot(a, b) ==
    LET q == a \div b
        r2 == 2 * (a % b)
    IN IF r2 < b \/ (r2 = b /\ q % 2 = 0) THEN q ELSE q + 1

\* C16: a step that recalculates the windows for the window length and the
\* sampling rate it leaves in force yields window_size_samples =
\* round(window_size_sec * sampling_rate) and stride = round(0.8 *
\* window_size_samples), and the stride is at least 1.  (A load that also
\* moves the window-length slider is left out: it recalculates before the
\* window length changes.)
C16_SamplesAndStride ==
    [][(/\ FileShown'
        /\ window_size_samples' # window_size_samples \/ stride' # stride
        /\ ~ (raw_data' # raw_data /\ window_size_sec' # window_size_sec)) =>
         /\ window_size_samples' = RoundQuot(window_size_sec' * sampling_rate', 10)
         /\ stride' = RoundQuot(8 * window_size_samples', 10)
         /\ stride' >= 1]_vars

\* the bounds get_window_bounds returns for window i in the current state
BoundsOf(i) == get_window_bounds(i, stride, window_size_samples, full_time_axis)

\* C17: for every valid window index i, get_window_bounds(i) = (start, end)
\* has 0 <= start <= end <= total_samples (the length of the time axis), and
\* end - start = window_size_samples for every window but the last.
C17_BoundsInRange ==
    (FileShown /\ full_time_axis # Unset) =>
        \A i \in 0 .. (num_windows - 1) :
            /\ 0 <= BoundsOf(i).start
            /\ BoundsOf(i).start <= BoundsOf(i).end
            /\ BoundsOf(i).end <= full_time_axis
            /\ i < num_windows - 1 =>
                   BoundsOf(i).end - BoundsOf(i).start = window_size_samples

\* C17 witness: the view was moved to an inner window, which has the full
\* length and ends before the end of the recording
C17_Witness ==
    /\ FileShown /\ stride >= 1
    /\ current_window >= 1 /\ current_window < num_windows - 1
    /\ CurrentBounds.end - CurrentBounds.start = window_size_samples
    /\ CurrentBounds.end < full_time_axis

\* C18: two consecutive windows i and i + 1 overlap by window_size_samples -
\* stride samples, unless i + 1 is the last window.
C18_ConsecutiveOverlap ==
    (FileShown /\ full_time_axis # Unset) =>
        \A i \in 0 .. (num_windows - 3) :
            BoundsOf(i).end - BoundsOf(i + 1).start = window_size_samples - stride

\* C18 witness: the view stands on a window that has a predecessor and is
\* not the last one, in a segmentation whose windows overlap
C18_Witness ==
    /\ FileShown /\ stride >= 1 /\ window_size_samples > stride
    /\ num_windows >= 3 /\ current_window >= 1 /\ current_window <= num_windows - 2
    /\ BoundsOf(current_window - 1).end > CurrentBounds.start

\* C19: for every time t, get_window_from_time(t) returns without raising
\* the index floor(t * sampling_rate / stride) clamped to 0 .. num_windows - 1,
\* a valid window index.
C19_WindowFromTime ==
    FileShown =>
        \A t \in ViewCentres :
            \A g \in {get_window_from_time(t, sampling_rate, stride, num_windows)} :
                /\ ~ g.raised
                /\ g.idx = Max(0, Min((t * sampling_rate) \div (10 * stride),
                                      num_windows - 1))
                /\ g.idx \in 0 .. (num_windows - 1)

\* C20: when the recording is empty or shorter than the window,
\* recalculate_windows completes with num_windows = 1 and get_window_bounds(0)
\* is the whole recording, (0, total_samples).
C20_DegenerateRecording ==
    (FileShown /\ (raw_data.cols = 0 \/ raw_data.cols < window_size_samples)) =>
        /\ stride # 0
        /\ num_windows = 1
        /\ BoundsOf(0) = [start |-> 0, end |-> raw_data.cols]

\* C21: a recording of 2 channels and 1000 samples at 100 Hz shown with a
\* window of 5 s has window_size_samples = 500, stride = 400 and
\* num_windows = 2; window 0 spans samples [0, 500), window 1 spans [400, 900).
C21_EndToEndWindows ==
    (/\ FileShown /\ raw_data.rows = 2 /\ raw_data.cols = 1000
     /\ sampling_rate = 100 /\ window_size_sec = 50) =>
        /\ window_size_samples = 500 /\ stride = 400 /\ num_windows = 2
        /\ num_channels = 2
        /\ BoundsOf(0) = [start |-> 0, end |-> 500]
        /\ BoundsOf(1) = [start |-> 400, end |-> 900]

\* C21 witness: the recording is shown under the 5 s window and the view
\* stands on window 1
C21_Witness ==
    /\ FileShown /\ raw_data.cols = 1000 /\ sampling_rate = 100 /\ window_size_sec = 50
    /\ current_window = 1 /\ CurrentBounds = [start |-> 400, end |-> 900]

\* C22: in every file-mode state with a file loaded, window_size_samples,
\* stride, num_windows and the time axis are the values recalculate_windows
\* derives from the current sampling_rate, window_size_sec and recording
\* length, whichever operation last changed one of those parameters.
C22_DerivedStateConsistent ==
    FileShown =>
        \A r \in {recalculate_windows(window_size_sec, sampling_rate, raw_data)} :
            /\ window_size_samples = r.window_size_samples
            /\ stride = r.stride
            /\ ~ r.raised => /\ num_windows = r.num_windows
                             /\ full_time_axis = r.full_time_axis

\* the channels of chs whose stored range is the largest among chs
WidestChannels(chs, bounds) ==
    {c \in chs : \A d \in chs : bounds[c][2] - bounds[c][1] >= bounds[d][2] - bounds[d][1]}

\* C23: for every non-empty set of requested channels that have stored
\* bounds, get_iqr_bounds_for_channels and get_minmax_bounds_for_channels
\* return a pair, the bounds of a requested channel whose range is the
\* largest, also when every requested channel has zero range.
C23_WidestChannelBounds ==
    [][\A chs \in {active_channels}, bounds \in {IF vertical_bounds_mode = "iqr"
                                                 THEN channel_iqr_bounds
                                                 ELSE channel_minmax_bounds} :
          (auto_fit_plot /\ h_fit_bounds' = get_bounds_for_channels(chs)
           /\ chs \subseteq DOMAIN bounds) =>
              /\ h_fit_bounds'.ret = "pair"
              /\ \E c \in WidestChannels(chs, bounds) :
                     <<h_fit_bounds'.lo, h_fit_bounds'.hi>> = bounds[c]]_vars

\* a load_file step that did not end in its except clause
SuccessfulLoad ==
    \E f \in WindowFiles :
        /\ load_file(f) /\ f.cols > 0
        /\ ~ recalculate_windows(window_size_sec, f.sfreq,
                                 [kind |-> "file", rows |-> f.rows, cols |-> f.cols]).raised

\* a change of the sampling rate while a recording is loaded
SamplingRateChange ==
    file_loaded /\ \E v \in WindowRates : on_sampling_rate_changed(v)

\* C24: the channel bounds are recomputed exactly once by every successful
\* file load and exactly once by every sampling-rate change, and no other
\* operation (navigation, window-length changes, channel toggles, panning)
\* changes channel_iqr_bounds or channel_minmax_bounds.
C24_BoundsRecomputedOnce ==
    [][/\ SuccessfulLoad => h_bounds_passes' = 1
       /\ SamplingRateChange => h_bounds_passes' = 1
       /\ ~ ((\E f \in WindowFiles : load_file(f)) \/ SamplingRateChange) =>
              UNCHANGED <<channel_iqr_bounds, channel_minmax_bounds, h_bounds_passes>>]_vars

\* the samples of a bag over the values S, in ascending order
RECURSIVE SortedSamples(_, _)
SortedSamples(bag, S) ==
    IF S = {} THEN << >>
    ELSE LET v == CHOOSE x \in S : \A y \in S : x <= y
         IN [i \in 1 .. bag[v] |-> v] \o SortedSamples(bag, S \ {v})

\* four times the quartile num / 4 of the ascending samples s: the weighted
\* mean of the two samples around position (Len(s) - 1) * num / 4
Quartile4(s, num) ==
    LET pos4 == num * (Len(s) - 1)
        i == (pos4 \div 4) + 1
    IN (4 - (pos4 % 4)) * s[i] + (pos4 % 4) * s[Min(i + 1, Len(s))]

\* C25: for every channel of the recording whose bounds prepare_data stored,
\* with quartiles Q1 and Q3 over the whole recording, the stored IQR bound is
\* exactly (Q1 - 5 * (Q3 - Q1), Q3 + 5 * (Q3 - Q1)) and the stored min/max
\* bound is exactly (min, max) of the channel's samples (all in quarters of
\* a microvolt).
C25_StoredBoundsExact ==
    (FileShown /\ h_bounds_passes = 1 /\ raw_data.cols > 0) =>
        \A ch \in Range(raw_data.rows) :
            \A s \in {SortedSamples(ChannelSamples(raw_data, ch),
                                    DOMAIN ChannelSamples(raw_data, ch))} :
                \A q1 \in {Quartile4(s, 1)}, q3 \in {Quartile4(s, 3)} :
                    /\ channel_iqr_bounds[ch] = <<q1 - 5 * (q3 - q1), q3 + 5 * (q3 - q1)>>
                    /\ channel_minmax_bounds[ch] = <<4 * s[1], 4 * s[Len(s)]>>

\* C25 witness: the bounds of a channel whose quartiles fall between two
\* different samples (Q1 = -0.75 and Q3 = 1.25 microvolts) are stored
C25_Witness ==
    /\ FileShown /\ h_bounds_passes = 1 /\ raw_data.cols = 204
    /\ Quartile4(SortedSamples(ChannelSamples(raw_data, 1),
                               DOMAIN ChannelSamples(raw_data, 1)), 1) = -3
    /\ Quartile4(SortedSamples(ChannelSamples(raw_data, 1),
                               DOMAIN ChannelSamples(raw_data, 1)), 3) = 5
    /\ channel_iqr_bounds[1] = <<-43, 45>> /\ channel_minmax_bounds[1] = <<-12, 8>>

\* C26: a derivation of the coefficients that fails (a band edge or the notch
\* at or above Nyquist for the board's rate) leaves filter_coeffs_valid
\* false; the flag changes at no other step, and while it is false every
\* chunk comes out of process_signal as input * magnitude_scale / 100 on
\* every channel, with both filter state maps left as they were.
C26_ParameterErrorPassthrough ==
    [][/\ (~ board /\ board' /\ (ButterRaises(sampling_rate') \/ NotchRaises(sampling_rate')))
            => ~ filter_coeffs_valid'
       /\ ~ (~ board /\ board') => filter_coeffs_valid' = filter_coeffs_valid
       /\ (h_ticks' # h_ticks /\ ~ filter_coeffs_valid) =>
            /\ UNCHANGED <<bandpass_zi, notch_zi>>
            /\ \A x \in {RawChunk(eeg_channels, board_pos, h_last_n')} :
                 \A r \in DOMAIN x :
                    LastCells(h_filtered'[r], h_last_n') =
                        [j \in 1 .. h_last_n' |-> (x[r][j] * magnitude_scale) \div 100]]_vars

\* C26 witness: after a connect at a rate whose notch cannot be derived, a
\* chunk went through process_signal at half gain and no filter state exists
C26_Witness ==
    /\ board /\ streaming_active /\ ~ filter_coeffs_valid
    /\ NotchRaises(sampling_rate) /\ ~ ButterRaises(sampling_rate)
    /\ bandpass_fs = sampling_rate
    /\ h_ticks >= 1 /\ h_last_n > 0 /\ magnitude_scale = 50
    /\ bandpass_zi = EmptyDict /\ notch_zi = EmptyDict

\* the cells of row data that the centred window of win cells at position i
\* covers, an index outside the row standing for the nearest cell
WindowCells(data, i, win) ==
    [k \in 1 .. win |-> data[Max(1, Min(Len(data), i - (win \div 2) + k - 1))]]

\* the sum of the cells of s that are not the sentinel
RECURSIVE SumPresent(_)
SumPresent(s) ==
    IF s = << >> THEN 0
    ELSE (IF Head(s) = NaN THEN 0 ELSE Head(s)) + SumPresent(Tail(s))

\* C27: for a row that is not entirely sentinel, the smoothed value at each
\* non-sentinel position is the mean of only the non-sentinel samples inside
\* its centred, edge-extended window (shown.out[i] / shown.win equals their
\* sum divided by their number).
C27_SmoothingSkipsSentinel ==
    \A ch \in DOMAIN h_plotted :
        \A p \in {h_plotted[ch]} :
            (p.shown.win > 1) =>
                \A i \in {j \in 1 .. Len(p.data) : p.data[j] # NaN} :
                    \A w \in {WindowCells(p.data, i, p.shown.win)} :
                        p.shown.out[i] * Cardinality({k \in 1 .. Len(w) : w[k] # NaN})
                            = SumPresent(w) * p.shown.win

\* C28: the spectral EMA never mixes shapes.  A tick that recomputes the
\* spectra leaves, for every active channel that has a buffer row, a cached
\* vector of the length of the newly computed one: an entry of another
\* length is dropped and reseeded, never blended and never left behind.
C28_EmaShapesNeverMixed ==
    [][(/\ h_appends' # h_appends /\ h_spectral' # << >>
        /\ h_spectral'[Len(h_spectral')]) =>
          \A ch \in active_channels :
              (ch < num_channels /\ ch < Rows(stream_buffer')) =>
                  /\ ch \in DOMAIN smoothed_fft'
                  /\ smoothed_fft'[ch] = FFTBins(Cols(stream_buffer'), sampling_rate)]_vars

\* ------------------------------------------------------ band-power ceiling
\* float comparisons: none with the sentinel is true
Geq(a, b) == a # NaN /\ b # NaN /\ a >= b
Exceeds(a, b) == a # NaN /\ b # NaN /\ a > b

\* the largest of the band values that are numbers (the sentinel if none is)
LargestShown(vals) ==
    LET S == {vals[b] : b \in DOMAIN vals} \ {NaN}
    IN IF S = {} THEN NaN ELSE CHOOSE m \in S : \A x \in S : x <= m

\* C29: after a band-power update the axis ceiling band_power_y_max is at
\* least the largest smoothed band value shown; if that maximum exceeded the
\* ceiling the update started from, the ceiling is the maximum; otherwise it
\* is 0.995 * old + 0.005 * maximum, which is not below 0.995 * old
C29_CeilingFollowsPeak ==
    h_ceiling_before # Unset =>
        LET shown == LargestShown(smoothed_band_value)
            old == h_ceiling_before
        IN /\ Geq(band_power_y_max, shown)
           /\ Exceeds(shown, old) => band_power_y_max = shown
           /\ ~ Exceeds(shown, old) =>
                 /\ band_power_y_max =
                        Round(DecayPerMille * old + (1000 - DecayPerMille) * shown, 1000)
                 /\ 1000 * band_power_y_max + 500 >= DecayPerMille * old

\* -------------------------------------------------------- outward publisher
\* A board, the sessions on it, and the outward publisher switched on and
\* off while they run.
NextOutlet ==
    \/ on_mode_changed
    \/ StartVizClicked
    \/ \E rate \in BoardRates : auto_connect_headset(rate)
    \/ disconnect_headset
    \/ \E n \in ChunkSizes : update_stream_data(n, NoFail)
    \/ \E ok \in BOOLEAN : start_eeg_stream(ok)
    \/ stop_eeg_stream

SpecOutlet == Init /\ [][NextOutlet]_vars

\* C30: the chunk a tick pushes to the outward publisher is the chunk that
\* process_signal returned on that tick
C30_PushedIsProcessed ==
    h_pushed.pushed => h_pushed.chunk = h_pushed.processed

\* ------------------------------------------------------------------ updater
NextUpdater == CheckClicked

SpecUpdater == Init /\ [][NextUpdater]_vars

\* what the last call of check_for_updates saw
LatestTag == IF update_check.resp.kind = "ok" /\ update_check.resp.has_tag
             THEN update_check.resp.tag ELSE << >>
PlatformAssets ==
    IF update_check.resp.kind = "ok"
    THEN {i \in 1 .. Len(update_check.resp.assets) :
            update_check.resp.assets[i].name = asset_name_for_platform(update_check.system)}
    ELSE {}
BothNumbered ==
    ~ parse_build_number(update_check.current).none /\ ~ parse_build_number(LatestTag).none
NumericallyNewer ==
    BothNumbered /\ parse_build_number(LatestTag).value > parse_build_number(update_check.current).value

C32_SessionHasBoardAndBuffer ==
    streaming_active => board /\ stream_buffer # NoBuffer

\* ------------------------------------------------------------ channel counts
\* A recording whose channel count differs from the board's is loaded before,
\* between and after connections and sessions.
NextChannels ==
    \/ on_mode_changed
    \/ \E f \in ChannelFiles : load_file(f)
    \/ StartVizClicked
    \/ \E rate \in BoardRates : auto_connect_headset(rate)
    \/ disconnect_headset
    \/ \E n \in SessionChunks : update_stream_data(n, NoFail)
    \/ \E v \in WindowChoices : on_window_size_spinbox_changed(v)

SpecChannels == Init /\ [][NextChannels]_vars

\* C33: while a streaming session is active on an allocated ring buffer,
\* num_channels is the number of rows of the buffer.
C33_ChannelsMatchBuffer ==
    streaming_active /\ stream_buffer # NoBuffer => num_channels = Rows(stream_buffer)

\* C34: a streaming session is active in stream mode only: in every reachable
\* state streaming_active implies mode = "stream", and no step taken while
\* streaming_active changes the mode or loads a file.
C34_StreamingOnlyInStreamMode ==
    /\ [](streaming_active => mode = "stream")
    /\ [][streaming_active =>
            mode' = mode /\ ~ (\E f \in FileChoices : load_file(f))]_vars

C34_Witness ==
    /\ streaming_active /\ mode = "stream" /\ ~ mode_radio_enabled
    /\ raw_data.kind = "stream" /\ h_ticks = MaxTicks

\* a session has started, a board is connected and no chunk of the session has
\* been processed yet: the state the first tick that reaches the engine finds
BeforeFirstChunk == streaming_active /\ stream_timer /\ board /\ h_last_n = 0

\* what the start branch of toggle_streaming_visualization leaves
FreshEngine ==
    /\ stream_buffer # NoBuffer
    /\ \A r \in DOMAIN stream_buffer :
           \A j \in 1 .. Len(stream_buffer[r]) : stream_buffer[r][j] = NaN
    /\ bandpass_zi = EmptyDict /\ notch_zi = EmptyDict
    /\ smoothed_fft = EmptyDict /\ smoothed_band_power = {}
    /\ band_power_y_max = 0
    /\ stream_warmup_remaining = WarmupSamples(sampling_rate)

\* C35: the first tick after every start of visualization finds the ring
\* buffer entirely sentinel, both filter-state maps empty, smoothed_fft and
\* smoothed_band_power empty, band_power_y_max 0 and the warmup counter at
\* int(0.5 * sampling_rate).
C35_FirstTickFindsFreshEngine ==
    BeforeFirstChunk => FreshEngine

\* a step that is an early return of update_stream_data: the outlet sees a
\* return it had not seen, or the record of a push is withdrawn while no
\* sample is pulled
IdleTick ==
    \/ h_pushed'.returned /\ ~ h_pushed.returned
    \/ /\ h_pushed.pushed /\ ~ h_pushed'.pushed
       /\ ~ board \/ ~ streaming_active \/ board_pos' = board_pos

\* C36: a tick that pulls an empty chunk, or fires without a board or without
\* a session, leaves the ring buffer, the filter states, the warmup counter,
\* the throttle counter and the EMA caches as they are and pushes nothing to
\* the outlet.
C36_IdleTickChangesNothing ==
    [][IdleTick =>
          /\ ~ h_pushed'.pushed /\ h_pushed'.chunk = << >>
          /\ UNCHANGED <<stream_buffer, stream_time_axis, stream_warmup_remaining,
                         bandpass_zi, notch_zi, fft_update_counter, smoothed_fft,
                         smoothed_band_power, smoothed_band_value, band_power_y_max,
                         raw_data, board_pos, tickHist>>]_vars

\* an empty pull has followed the processed chunks of a session with an outlet
C36_Witness ==
    /\ streaming_active /\ board /\ eeg_outlet /\ stream_timer
    /\ h_ticks = MaxTicks /\ h_appends > 0 /\ h_pushed.returned

\* a tick whose chunk the warmup consumes whole: a chunk is processed while
\* the counter is positive and stays non-negative after the chunk is taken off
WarmupTick ==
    /\ h_ticks' # h_ticks
    /\ stream_warmup_remaining > 0
    /\ stream_warmup_remaining - h_last_n' >= 0

\* C37: a tick whose chunk is entirely consumed by warmup takes the chunk off
\* the counter, leaves the ring buffer, the throttle counter and the EMA
\* caches as they are and runs no plot or spectral update, while the filter
\* states of every channel whose stages ran are the ones the discarded chunk
\* leaves behind.
C37_WarmupDiscardsButFilters ==
    [][WarmupTick =>
         /\ stream_warmup_remaining' = stream_warmup_remaining - h_last_n'
         /\ UNCHANGED <<stream_buffer, raw_data, fft_update_counter, smoothed_fft,
                        smoothed_band_power, smoothed_band_value, band_power_y_max,
                        h_spectral, h_appends, h_admitted, h_last_kept>>
         /\ filter_coeffs_valid =>
              \A x \in {RawChunk(eeg_channels, board_pos, h_last_n')} :
              \A r \in DOMAIN x :
                h_last_fail'[r] = "none" =>
                  \A bp \in {lfilter(butter(bandpass_fs), x[r],
                                     IF r \in DOMAIN bandpass_zi THEN bandpass_zi[r]
                                     ELSE ScaleVec(lfilter_zi(butter(zi_template_fs)),
                                                   x[r][1]))} :
                  \A nt \in {lfilter(iirnotch(notch_fs), bp.y,
                                     IF r \in DOMAIN notch_zi THEN notch_zi[r]
                                     ELSE ScaleVec(lfilter_zi(iirnotch(zi_template_fs)),
                                                   x[r][1]))} :
                     /\ r \in DOMAIN bandpass_zi' /\ r \in DOMAIN notch_zi'
                     /\ bandpass_zi'[r] = bp.zf /\ notch_zi'[r] = nt.zf]_vars

\* two chunks in a row were consumed by the warmup of a session on a board
\* with valid coefficients: nothing was appended, the counter went down by
\* both and every channel has filter states
C37_Witness ==
    /\ streaming_active /\ board /\ filter_coeffs_valid
    /\ h_ticks = 2 /\ h_appends = 0 /\ h_last_fail = NoFail
    /\ Len(h_filtered[0]) = 2 * h_last_n
    /\ stream_warmup_remaining = WarmupSamples(sampling_rate) - 2 * h_last_n
    /\ stream_warmup_remaining > 0
    /\ DOMAIN bandpass_zi = Range(BoardChannels) /\ DOMAIN notch_zi = Range(BoardChannels)
    /\ stream_buffer # NoBuffer
    /\ \A r \in DOMAIN stream_buffer : DataCells(stream_buffer[r]) = 0

\* C38: once a recording is loaded, current_window is an index of a window:
\* 0 <= current_window <= num_windows - 1.
C38_CurrentWindowInRange ==
    (file_loaded /\ raw_data.kind = "file") =>
        (0 <= current_window /\ current_window <= num_windows - 1)

\* C39: when the recording is at least one window long and the stride is at
\* least 1, no window of the segmentation is clamped: for every index i in
\* 0 .. num_windows - 1, i * stride + window_size_samples <= total_samples and
\* get_window_bounds(i) spans exactly window_size_samples samples from
\* i * stride.
C39_ValidWindowsUnclamped ==
    (/\ file_loaded /\ raw_data.kind = "file"
     /\ raw_data.cols >= window_size_samples /\ stride >= 1) =>
        \A i \in 0 .. num_windows - 1 :
            /\ i * stride + window_size_samples <= raw_data.cols
            /\ \A b \in {get_window_bounds(i, stride, window_size_samples, full_time_axis)} :
                 b.start = i * stride /\ b.end - b.start = window_size_samples

\* a recording cut into several windows whose last one ends before the last
\* sample, and the view on the last window
C39_Witness ==
    /\ file_loaded /\ raw_data.kind = "file" /\ stride >= 1
    /\ num_windows >= 3 /\ current_window = num_windows - 1
    /\ (num_windows - 1) * stride + window_size_samples < raw_data.cols
    /\ CurrentBounds.end - CurrentBounds.start = window_size_samples

====
